---------------------------- MODULE Spec2Model ----------------------------
(***************************************************************************)
(* A model of the Python implementation of Links Notation (Lino):          *)
(* links_notation/parser.py (Parser) and links_notation/link.py (Link).    *)
(*                                                                         *)
(* A text is a sequence of characters, each character a one-character      *)
(* string.  Python indexes from 0 and this module from 1: a position p of  *)
(* the code is p + 1 here, and "not found" (-1 in the code) is 0.          *)
(***************************************************************************)
EXTENDS Integers, Sequences, FiniteSets, TLC

(***************************************************************************)
(* Characters.                                                             *)
(***************************************************************************)
SP == " "
TAB == "\t"
NL == "\n"
CR == "\r"
SQ == "'"
DQ == "\""
\* The backtick character (the parser cannot hold it in a string literal).
BT == "bt"
LP == "("
RP == ")"
COLON == ":"

\* The characters str.strip() and str.split() treat as whitespace.
Whitespace == {SP, TAB, NL, CR}

\* for quote_char in ['"', "'", "`"]
QuoteChars == <<DQ, SQ, BT>>

(***************************************************************************)
(* Python's str operations.                                                *)
(***************************************************************************)
Max(a, b) == IF a >= b THEN a ELSE b

\* s[i:] for a 1-based i
From(s, i) == SubSeq(s, i, Len(s))

\* s[i:].startswith(p), i 1-based
StartsWithAt(s, i, p) ==
    /\ i + Len(p) - 1 <= Len(s)
    /\ \A k \in 1..Len(p) : s[i + k - 1] = p[k]

StartsWith(s, p) == StartsWithAt(s, 1, p)

EndsWith(s, p) ==
    /\ Len(p) <= Len(s)
    /\ \A k \in 1..Len(p) : s[Len(s) - Len(p) + k] = p[k]

\* c * n
Repeat(c, n) == [k \in 1..n |-> c]

\* c in s
Contains(s, c) == \E k \in 1..Len(s) : s[k] = c

\* The number of leading characters of s, from position i, that are in set.
RECURSIVE CountLeading(_, _, _)
CountLeading(s, i, set) ==
    IF i <= Len(s) /\ s[i] \in set THEN 1 + CountLeading(s, i + 1, set) ELSE 0

\* The number of trailing characters of s[1..n] that are in set.
RECURSIVE CountTrailing(_, _, _)
CountTrailing(s, n, set) ==
    IF n >= 1 /\ s[n] \in set THEN 1 + CountTrailing(s, n - 1, set) ELSE 0

\* s.lstrip(" ")
LStripSpaces(s) == From(s, CountLeading(s, 1, {SP}) + 1)

\* s.strip()
Strip(s) ==
    LET a == CountLeading(s, 1, Whitespace)
    IN  IF a = Len(s) THEN <<>>
        ELSE SubSeq(s, a + 1, Len(s) - CountTrailing(s, Len(s), Whitespace))

\* s.split(): the maximal runs of non-whitespace characters, in order.
RECURSIVE SplitFrom(_, _, _, _)
SplitFrom(s, i, cur, acc) ==
    IF i > Len(s) THEN (IF cur = <<>> THEN acc ELSE Append(acc, cur))
    ELSE IF s[i] \in Whitespace
         THEN SplitFrom(s, i + 1, <<>>, IF cur = <<>> THEN acc ELSE Append(acc, cur))
         ELSE SplitFrom(s, i + 1, Append(cur, s[i]), acc)

Split(s) == SplitFrom(s, 1, <<>>, <<>>)

\* sep.join(parts)
RECURSIVE Join(_, _)
Join(parts, sep) ==
    IF parts = <<>> THEN <<>>
    ELSE IF Len(parts) = 1 THEN parts[1]
    ELSE parts[1] \o sep \o Join(Tail(parts), sep)


(***************************************************************************)
(* Quote and parenthesis tracking shared by the scanners of parser.py:     *)
(* the in_single / in_double / in_backtick flags and paren_depth.          *)
(***************************************************************************)
ScanStart(depth) == [s |-> FALSE, d |-> FALSE, b |-> FALSE, p |-> depth]

InQuote(st) == st.s \/ st.d \/ st.b

\* One step of the if/elif chain over a character: toggle a quote flag, or
\* count a parenthesis met outside quotes.
ScanStep(st, c) ==
    IF c = SQ /\ ~st.d /\ ~st.b THEN [st EXCEPT !.s = ~st.s]
    ELSE IF c = DQ /\ ~st.s /\ ~st.b THEN [st EXCEPT !.d = ~st.d]
    ELSE IF c = BT /\ ~st.s /\ ~st.d THEN [st EXCEPT !.b = ~st.b]
    ELSE IF c = LP /\ ~InQuote(st) THEN [st EXCEPT !.p = st.p + 1]
    ELSE IF c = RP /\ ~InQuote(st) THEN [st EXCEPT !.p = st.p - 1]
    ELSE st

(***************************************************************************)
(* Parser._split_lines_respecting_quotes                                   *)
(***************************************************************************)
RECURSIVE SplitLinesLoop(_, _, _, _, _)
SplitLinesLoop(text, i, st, current_line, lines) ==
    IF i > Len(text)
    THEN (IF current_line # <<>> THEN Append(lines, current_line) ELSE lines)
    ELSE LET char == text[i]
         IN  IF char = NL /\ ~(InQuote(st) \/ st.p > 0)
             THEN SplitLinesLoop(text, i + 1, st, <<>>, Append(lines, current_line))
             ELSE SplitLinesLoop(text, i + 1, ScanStep(st, char),
                                 Append(current_line, char), lines)

_split_lines_respecting_quotes(text) ==
    SplitLinesLoop(text, 1, ScanStart(0), <<>>, <<>>)

(***************************************************************************)
(* Parser._find_colon_outside_quotes: the position of the first colon      *)
(* outside quotes at parenthesis depth 0, or 0.                            *)
(***************************************************************************)
RECURSIVE FindColonLoop(_, _, _)
FindColonLoop(text, i, st) ==
    IF i > Len(text) THEN 0
    ELSE IF text[i] = COLON /\ ~InQuote(st) /\ st.p = 0 THEN i
    ELSE FindColonLoop(text, i + 1, ScanStep(st, text[i]))

_find_colon_outside_quotes(text) == FindColonLoop(text, 1, ScanStart(0))

(***************************************************************************)
(* Parser._parse_multi_quote_string: [ok, content]; ok = FALSE is None.    *)
(***************************************************************************)
\* A scan of a multi-quote string that knows no escape sequence
RECURSIVE MultiQuoteLoopNoEscape(_, _, _, _, _)
MultiQuoteLoopNoEscape(text, p, quote_char, quote_count, content) ==
    IF p > Len(text) THEN [ok |-> FALSE, content |-> <<>>]
    ELSE IF /\ StartsWithAt(text, p, Repeat(quote_char, quote_count))
            /\ (p + quote_count > Len(text) \/ text[p + quote_count] # quote_char)
    THEN [ok |-> TRUE, content |-> content]
    ELSE MultiQuoteLoopNoEscape(text, p + 1, quote_char, quote_count,
                                Append(content, text[p]))

RECURSIVE MultiQuoteLoop(_, _, _, _, _)
MultiQuoteLoop(text, p, quote_char, quote_count, content) ==
    IF p > Len(text) THEN [ok |-> FALSE, content |-> <<>>]
    ELSE IF StartsWithAt(text, p, Repeat(quote_char, 2 * quote_count))
    THEN MultiQuoteLoop(text, p + 2 * quote_count, quote_char, quote_count,
                        content \o Repeat(quote_char, quote_count))
    ELSE IF /\ StartsWithAt(text, p, Repeat(quote_char, quote_count))
            /\ (p + quote_count > Len(text) \/ text[p + quote_count] # quote_char)
    THEN [ok |-> TRUE, content |-> content]
    ELSE MultiQuoteLoop(text, p + 1, quote_char, quote_count, Append(content, text[p]))

_parse_multi_quote_string(text, quote_char, quote_count) ==
    IF ~StartsWith(text, Repeat(quote_char, quote_count))
    THEN [ok |-> FALSE, content |-> <<>>]
    ELSE MultiQuoteLoop(text, quote_count + 1, quote_char, quote_count, <<>>)

(***************************************************************************)
(* Parser._extract_reference                                               *)
(***************************************************************************)
IsQuoteChar(c) == \E k \in 1..Len(QuoteChars) : QuoteChars[k] = c

_extract_reference(raw_text) ==
    LET text == Strip(raw_text)
    IN  IF text # <<>> /\ IsQuoteChar(text[1])
        THEN LET quote_count == CountLeading(text, 1, {text[1]})
                 result == _parse_multi_quote_string(text, text[1], quote_count)
             IN  IF Len(text) > quote_count /\ result.ok THEN result.content ELSE text
        ELSE text

(***************************************************************************)
(* Identities as the parser's dicts hold them: a str or a list of str.     *)
(***************************************************************************)
StrId(s) == [isList |-> FALSE, parts |-> <<s>>]
ListId(ps) == [isList |-> TRUE, parts |-> ps]
NoId == [isList |-> TRUE, parts |-> <<>>]

\* Python truthiness of an identity: a non-empty str or a non-empty list.
Truthy(id) == IF id.isList THEN id.parts # <<>> ELSE id.parts[1] # <<>>

\* An identity extraction that keeps several bare words as one str
JoinedReferenceId(raw_text) ==
    LET text == Strip(raw_text)
    IN  IF text # <<>> /\ IsQuoteChar(text[1]) THEN StrId(_extract_reference(text))
        ELSE StrId(Join(Split(text), <<SP>>))

(***************************************************************************)
(* Parser._extract_multi_reference_id                                      *)
(***************************************************************************)
_extract_multi_reference_id(raw_text) ==
    LET text == Strip(raw_text)
        parts == Split(text)
    IN  IF text # <<>> /\ IsQuoteChar(text[1]) THEN StrId(_extract_reference(text))
        ELSE IF Len(parts) = 1 THEN StrId(parts[1])
        ELSE ListId(parts)

(***************************************************************************)
(* Parser._extract_next_value: [end, text], end the position after the     *)
(* value.                                                                  *)
(***************************************************************************)
\* The scan for the closing run of a multi-quote string opened at start:
\* the position after the closing run, or 0 when there is none.
RECURSIVE QuoteCloseLoop(_, _, _, _)
QuoteCloseLoop(text, p, quote_char, quote_count) ==
    IF p > Len(text) THEN 0
    ELSE IF StartsWithAt(text, p, Repeat(quote_char, 2 * quote_count))
    THEN QuoteCloseLoop(text, p + 2 * quote_count, quote_char, quote_count)
    ELSE IF /\ StartsWithAt(text, p, Repeat(quote_char, quote_count))
            /\ (p + quote_count > Len(text) \/ text[p + quote_count] # quote_char)
    THEN p + quote_count
    ELSE QuoteCloseLoop(text, p + 1, quote_char, quote_count)

\* The scan to the parenthesis matching the one at start.
RECURSIVE ParenEndLoop(_, _, _)
ParenEndLoop(text, i, st) ==
    IF i > Len(text) \/ st.p <= 0 THEN i
    ELSE ParenEndLoop(text, i + 1, ScanStep(st, text[i]))

\* The scan of a regular value: to the first space outside quotes.
RECURSIVE RegularEndLoop(_, _, _)
RegularEndLoop(text, i, st) ==
    IF i > Len(text) THEN i
    ELSE LET char == text[i]
         IN  IF IsQuoteChar(char) /\ ScanStep(st, char) # st
             THEN RegularEndLoop(text, i + 1, ScanStep(st, char))
             ELSE IF char = SP /\ ~InQuote(st) THEN i
             ELSE RegularEndLoop(text, i + 1, st)

_extract_next_value(text, start) ==
    LET quote_count == CountLeading(text, start, {text[start]})
        closed == IF IsQuoteChar(text[start])
                  THEN QuoteCloseLoop(text, start + quote_count, text[start], quote_count)
                  ELSE 0
        paren_end == ParenEndLoop(text, start + 1, ScanStart(1))
        regular_end == RegularEndLoop(text, start, ScanStart(0))
    IN  IF start > Len(text) THEN [end |-> start, text |-> <<>>]
        ELSE IF closed # 0 THEN [end |-> closed, text |-> SubSeq(text, start, closed - 1)]
        ELSE IF text[start] = LP
             THEN [end |-> paren_end, text |-> SubSeq(text, start, paren_end - 1)]
        ELSE [end |-> regular_end, text |-> SubSeq(text, start, regular_end - 1)]

(***************************************************************************)
(* The dicts the parser builds.  A dict has "id" or not (hasId), "values"  *)
(* or not (hasValues), and children (absent is the empty list).            *)
(***************************************************************************)
RefItem(ref) ==
    [hasId |-> TRUE, id |-> StrId(ref), hasValues |-> FALSE, values |-> <<>>,
     children |-> <<>>, is_indented_id |-> FALSE]

ValuesItem(values) ==
    [hasId |-> FALSE, id |-> NoId, hasValues |-> TRUE, values |-> values,
     children |-> <<>>, is_indented_id |-> FALSE]

IdValuesItem(id, values, indented) ==
    [hasId |-> TRUE, id |-> id, hasValues |-> TRUE, values |-> values,
     children |-> <<>>, is_indented_id |-> indented]

(***************************************************************************)
(* Parser._parse_values, Parser._parse_value, Parser._parse_parenthesized  *)
(***************************************************************************)
RECURSIVE ParseValuesLoop(_, _, _)
RECURSIVE _parse_value(_)
RECURSIVE _parse_parenthesized(_)

_parse_values(text) == ParseValuesLoop(text, 1, <<>>)

RECURSIVE AfterExtract(_, _, _, _)

\* while i < len(text): skip the whitespace, then extract the next value
ParseValuesLoop(text, i, values) ==
    IF i + CountLeading(text, i, Whitespace) > Len(text) THEN values
    ELSE AfterExtract(text, i + CountLeading(text, i, Whitespace), values,
                      _extract_next_value(text, i + CountLeading(text, i, Whitespace)))

\* The rest of one iteration, v = (value_end, value_text)
AfterExtract(text, i, values, v) ==
    ParseValuesLoop(text, IF v.end = i THEN i + 1 ELSE v.end,
                    IF v.text # <<>> /\ Strip(v.text) # <<>>
                    THEN Append(values, _parse_value(v.text))
                    ELSE values)

_parse_value(value) ==
    IF StartsWith(value, <<LP>>) /\ EndsWith(value, <<RP>>)
    THEN _parse_parenthesized(Strip(SubSeq(value, 2, Len(value) - 1)))
    ELSE RefItem(_extract_reference(value))

_parse_parenthesized(inner) ==
    LET colon_pos == _find_colon_outside_quotes(inner)
    IN  IF colon_pos > 0
        THEN IdValuesItem(_extract_multi_reference_id(Strip(SubSeq(inner, 1, colon_pos - 1))),
                          _parse_values(Strip(From(inner, colon_pos + 1))), FALSE)
        ELSE ValuesItem(_parse_values(inner))

(***************************************************************************)
(* Parser._parse_line_content                                              *)
(***************************************************************************)
_parse_line_content(content) ==
    LET colon_pos == _find_colon_outside_quotes(content)
    IN  IF StartsWith(content, <<LP>>) /\ EndsWith(content, <<RP>>)
        THEN _parse_parenthesized(Strip(SubSeq(content, 2, Len(content) - 1)))
        ELSE IF EndsWith(content, <<COLON>>)
        THEN IdValuesItem(_extract_multi_reference_id(
                              Strip(SubSeq(content, 1, Len(content) - 1))), <<>>, TRUE)
        ELSE IF /\ Contains(content, COLON)
                /\ ~(StartsWith(content, <<DQ>>) \/ StartsWith(content, <<SQ>>))
                /\ colon_pos > 0
        THEN IdValuesItem(_extract_multi_reference_id(Strip(SubSeq(content, 1, colon_pos - 1))),
                          _parse_values(Strip(From(content, colon_pos + 1))), FALSE)
        ELSE ValuesItem(_parse_values(content))

(***************************************************************************)
(* Parser._parse_element and Parser._parse_document.  self.pos and         *)
(* self.base_indentation are threaded through: each operator returns the   *)
(* values they have when the call returns.  hang = TRUE: the call never    *)
(* returns (its loop repeats without changing any state).                  *)
(***************************************************************************)
\* self.base_indentation = None
NoBase == -1

\* len(line) - len(line.lstrip(" "))
RawIndent(line) == CountLeading(line, 1, {SP})

\* max(0, raw_indent - (self.base_indentation or 0))
NormalIndent(raw_indent, base) == Max(0, raw_indent - (IF base = NoBase THEN 0 ELSE base))

\* A child test that takes only a line indented by exactly two more spaces
IsChildIndentByTwo(next_indent, indent) == next_indent = indent + 2

\* The indent that decides whether the next line is a child: next_indent > indent
IsChildIndent(next_indent, indent) == next_indent > indent

\* What _parse_element returns (has = FALSE: None) and leaves in self
Returned(has, elem, pos, base, hang) ==
    [has |-> has, elem |-> elem, pos |-> pos, base |-> base, hang |-> hang]

RECURSIVE _parse_element(_, _, _, _)
RECURSIVE ParseLine(_, _, _, _, _)
RECURSIVE ChildrenLoop(_, _, _, _, _)
RECURSIVE AfterChild(_, _, _, _, _, _)

_parse_element(lines, pos, base, current_indent) ==
    IF pos > Len(lines) THEN Returned(FALSE, ValuesItem(<<>>), pos, base, FALSE)
    ELSE ParseLine(lines, pos,
                   \* Set base indentation from first content line
                   IF base = NoBase /\ Strip(lines[pos]) # <<>> THEN RawIndent(lines[pos])
                   ELSE base,
                   current_indent, Strip(lines[pos]))

\* _parse_element from "Normalize indentation relative to base" on
ParseLine(lines, pos, base, current_indent, content) ==
    IF NormalIndent(RawIndent(lines[pos]), base) < current_indent
    THEN Returned(FALSE, ValuesItem(<<>>), pos, base, FALSE)
    ELSE IF content = <<>> THEN Returned(FALSE, ValuesItem(<<>>), pos + 1, base, FALSE)
    ELSE ChildrenLoop(lines, pos + 1, base, NormalIndent(RawIndent(lines[pos]), base),
                      _parse_line_content(content))

\* The next line's indentation taken as written, not relative to the base
NextIndentRaw(next_line, base) == RawIndent(next_line)

\* Normalize next line's indentation
NextIndent(next_line, base) == NormalIndent(RawIndent(next_line), base)

\* while self.pos < len(self.lines): the lines that follow, as children of
\* element; then return element
ChildrenLoop(lines, pos, base, indent, element) ==
    IF pos > Len(lines) THEN Returned(TRUE, element, pos, base, FALSE)
    ELSE IF Strip(lines[pos]) # <<>> /\ IsChildIndent(NextIndent(lines[pos], base), indent)
    \* child_indent, and indent + 2 once there are children: the same number
    THEN AfterChild(lines, pos, base, indent, element,
                    _parse_element(lines, pos, base, indent + 2))
    ELSE Returned(TRUE, element, pos, base, FALSE)

\* The rest of one iteration.  A child call that returned None without
\* consuming the line leaves the loop to meet the same line again, for ever.
AfterChild(lines, pos, base, indent, element, child) ==
    IF child.hang \/ (~child.has /\ child.pos = pos)
    THEN Returned(TRUE, element, pos, base, TRUE)
    ELSE ChildrenLoop(lines, child.pos, child.base, indent,
                      IF child.has
                      THEN [element EXCEPT !.children = Append(@, child.elem)]
                      ELSE element)

RECURSIVE DocumentLoop(_, _, _, _)
RECURSIVE AfterElement(_, _, _)

DocumentLoop(lines, pos, base, links) ==
    IF pos > Len(lines)
    THEN [links |-> links, pos |-> pos, base |-> base, hang |-> FALSE]
    ELSE IF Strip(lines[pos]) # <<>>
    THEN AfterElement(lines, links, _parse_element(lines, pos, base, 0))
    ELSE DocumentLoop(lines, pos + 1, base, links)

\* The rest of one iteration: links.append(element)
AfterElement(lines, links, element) ==
    IF element.hang
    THEN [links |-> links, pos |-> element.pos, base |-> element.base, hang |-> TRUE]
    ELSE DocumentLoop(lines, element.pos, element.base,
                      IF element.has THEN Append(links, element.elem) ELSE links)

\* self.pos = 0, then the loop over the lines
_parse_document(lines, base) == DocumentLoop(lines, 1, base, <<>>)

(***************************************************************************)
(* Link (link.py): _ids is None (hasIds = FALSE) or a list of str; values  *)
(* is a list of Link; path is _is_from_path_combination.                   *)
(***************************************************************************)
\* Link.__init__(link_id, values) for a link_id that is None, a str or a list
Link(hasId, id, values) ==
    [hasIds |-> hasId, ids |-> IF hasId THEN id.parts ELSE <<>>, values |-> values,
     path |-> FALSE]

\* Link.__eq__: the identity and the values, recursively; not the path flag
RECURSIVE LinkEq(_, _)
LinkEq(a, b) ==
    /\ a.hasIds = b.hasIds
    /\ a.ids = b.ids
    /\ Len(a.values) = Len(b.values)
    /\ \A k \in 1..Len(a.values) : LinkEq(a.values[k], b.values[k])

\* list.__eq__ of two lists of Link
LinksEq(xs, ys) ==
    /\ Len(xs) = Len(ys)
    /\ \A k \in 1..Len(xs) : LinkEq(xs[k], ys[k])

(***************************************************************************)
(* self.multi_ref_definitions: a dict in insertion order, here a sequence  *)
(* of [key, val] without repeated keys.                                    *)
(***************************************************************************)
HasKey(defs, key) == \E k \in 1..Len(defs) : defs[k].key = key

\* self.multi_ref_definitions[key] = val
DictSet(defs, key, val) ==
    IF HasKey(defs, key)
    THEN [k \in 1..Len(defs) |-> IF defs[k].key = key THEN [key |-> key, val |-> val]
                                 ELSE defs[k]]
    ELSE Append(defs, [key |-> key, val |-> val])

(***************************************************************************)
(* Parser._collect_multi_ref_definitions                                   *)
(***************************************************************************)
RECURSIVE _collect_multi_ref_definitions(_, _)
_collect_multi_ref_definitions(items, defs) ==
    IF items = <<>> THEN defs
    ELSE LET item == Head(items)
             d1 == IF item.hasId /\ item.id.isList /\ Len(item.id.parts) > 1
                   THEN DictSet(defs, Join(item.id.parts, <<SP>>), item.id.parts)
                   ELSE defs
             d2 == _collect_multi_ref_definitions(item.children, d1)
             d3 == _collect_multi_ref_definitions(item.values, d2)
         IN  _collect_multi_ref_definitions(Tail(items), d3)

(***************************************************************************)
(* Parser._is_simple_reference, Parser._try_match_multi_ref                *)
(***************************************************************************)
_is_simple_reference(item) ==
    /\ item.hasId
    /\ ~item.id.isList
    /\ item.values = <<>>
    /\ item.children = <<>>

RECURSIVE MaxPartCount(_)
MaxPartCount(defs) ==
    IF defs = <<>> THEN 0 ELSE Max(Len(Head(defs).val), MaxPartCount(Tail(defs)))

RECURSIVE WithPartCount(_, _)
WithPartCount(defs, n) ==
    IF defs = <<>> THEN <<>>
    ELSE IF Len(Head(defs).val) = n THEN <<Head(defs)>> \o WithPartCount(Tail(defs), n)
    ELSE WithPartCount(Tail(defs), n)

\* sorted(items, key=len of the parts, reverse=True): longest first, and
\* insertion order among definitions of one length (the sort is stable)
\* The definitions by ascending number of parts
RECURSIVE ShortestFirstFrom(_, _)
ShortestFirstFrom(defs, n) ==
    IF n = 0 THEN <<>> ELSE ShortestFirstFrom(defs, n - 1) \o WithPartCount(defs, n)

RECURSIVE SortedFrom(_, _)
SortedFrom(defs, n) ==
    IF n = 0 THEN <<>> ELSE WithPartCount(defs, n) \o SortedFrom(defs, n - 1)

\* The definitions in insertion order, not sorted by length
UnsortedMultiRefs(defs) == defs

SortedMultiRefs(defs) == SortedFrom(defs, MaxPartCount(defs))

\* Whether the values from start_index on are simple references to parts.
PartsMatch(values, start_index, parts) ==
    /\ start_index + Len(parts) - 1 <= Len(values)
    /\ \A j \in 1..Len(parts) :
          /\ _is_simple_reference(values[start_index + j - 1])
          /\ values[start_index + j - 1].id.parts[1] = parts[j]

RECURSIVE FirstMatch(_, _, _)
FirstMatch(sorted, values, start_index) ==
    IF sorted = <<>> THEN [found |-> FALSE, multi_ref |-> <<>>, consumed |-> 0]
    ELSE IF PartsMatch(values, start_index, Head(sorted).val)
    THEN [found |-> TRUE, multi_ref |-> Head(sorted).val, consumed |-> Len(Head(sorted).val)]
    ELSE FirstMatch(Tail(sorted), values, start_index)

_try_match_multi_ref(values, start_index, defs) ==
    FirstMatch(SortedMultiRefs(defs), values, start_index)

(***************************************************************************)
(* Parser._transform_link, Parser._transform_values_with_multi_ref_context *)
(* for a dict item.  opts holds enable_multi_ref_context.                  *)
(***************************************************************************)
RECURSIVE _transform_link(_, _, _)
RECURSIVE TransformValuesLoop(_, _, _, _, _)
RECURSIVE TransformEach(_, _, _)

\* [self._transform_link(v) for v in values]
TransformEach(values, defs, enable) ==
    IF values = <<>> THEN <<>>
    ELSE <<_transform_link(Head(values), defs, enable)>>
         \o TransformEach(Tail(values), defs, enable)

TransformValuesLoop(values, i, result, defs, enable) ==
    LET current == values[i]
        match_result == _try_match_multi_ref(values, i, defs)
    IN  IF i > Len(values) THEN result
        ELSE IF _is_simple_reference(current) /\ match_result.found
        THEN TransformValuesLoop(values, i + match_result.consumed,
                                 Append(result, Link(TRUE, ListId(match_result.multi_ref), <<>>)),
                                 defs, enable)
        ELSE TransformValuesLoop(values, i + 1,
                                 Append(result, _transform_link(current, defs, enable)),
                                 defs, enable)

_transform_values_with_multi_ref_context(values, defs, enable) ==
    TransformValuesLoop(values, 1, <<>>, defs, enable)

_transform_link(item, defs, enable) ==
    IF item.hasId /\ ~item.hasValues THEN Link(TRUE, item.id, <<>>)
    ELSE IF item.hasValues
    THEN Link(item.hasId, item.id,
              IF enable /\ defs # <<>>
              THEN _transform_values_with_multi_ref_context(item.values, defs, enable)
              ELSE TransformEach(item.values, defs, enable))
    ELSE Link(item.hasId, item.id, <<>>)

(***************************************************************************)
(* Parser._combine_path_elements                                           *)
(***************************************************************************)
RECURSIVE _combine_path_elements(_, _)
_combine_path_elements(path_elements, current) ==
    IF path_elements = <<>> THEN current
    ELSE IF Len(path_elements) = 1
    THEN [hasIds |-> FALSE, ids |-> <<>>, values |-> <<path_elements[1], current>>,
          path |-> TRUE]
    ELSE [hasIds |-> FALSE, ids |-> <<>>,
          values |-> <<_combine_path_elements(SubSeq(path_elements, 1, Len(path_elements) - 1),
                                              path_elements[Len(path_elements)]),
                       current>>,
          path |-> TRUE]

(***************************************************************************)
(* Parser._collect_links                                                   *)
(***************************************************************************)
\* The values of an indented-id link: one per child line
RECURSIVE ChildValues(_, _, _)
ChildValues(children, defs, enable) ==
    IF children = <<>> THEN <<>>
    ELSE LET child == Head(children)
         IN  <<IF child.values # <<>> /\ Len(child.values) = 1
               THEN _transform_link(child.values[1], defs, enable)
               ELSE _transform_link(child, defs, enable)>>
             \o ChildValues(Tail(children), defs, enable)

\* result.append(current_link), or its combination with the parent path
Emit(result, parent_path, current_link) ==
    Append(result, IF parent_path = <<>> THEN current_link
                   ELSE _combine_path_elements(parent_path, current_link))

RECURSIVE _collect_links(_, _, _, _, _)
RECURSIVE CollectChildren(_, _, _, _, _)
RECURSIVE WithChildren(_, _, _, _, _, _)

_collect_links(item, parent_path, result, defs, enable) ==
    IF item.is_indented_id /\ item.hasId /\ Truthy(item.id) /\ item.values = <<>>
       /\ item.children # <<>>
    \* link_with_children = {"id", "values": child_values}: its values are Link
    \* objects already, which _transform_link returns as they are
    THEN Emit(result, parent_path,
              Link(TRUE, item.id, ChildValues(item.children, defs, enable)))
    ELSE IF item.children # <<>>
    THEN WithChildren(item.children, parent_path, result, defs, enable,
                      _transform_link(item, defs, enable))
    ELSE Emit(result, parent_path, _transform_link(item, defs, enable))

\* The "Regular indented structure" branch, current_link transformed
WithChildren(children, parent_path, result, defs, enable, current_link) ==
    CollectChildren(children, Append(parent_path, current_link),
                    Emit(result, parent_path, current_link), defs, enable)

\* for child in children: self._collect_links(child, new_path, result)
CollectChildren(children, new_path, result, defs, enable) ==
    IF children = <<>> THEN result
    ELSE CollectChildren(Tail(children), new_path,
                         _collect_links(Head(children), new_path, result, defs, enable),
                         defs, enable)

(***************************************************************************)
(* Parser._transform_result: [links, defs]                                 *)
(***************************************************************************)
RECURSIVE CollectAll(_, _, _, _)
CollectAll(raw_result, links, defs, enable) ==
    IF raw_result = <<>> THEN links
    ELSE CollectAll(Tail(raw_result),
                    _collect_links(Head(raw_result), <<>>, links, defs, enable),
                    defs, enable)

_transform_result(raw_result, defs0, enable) ==
    LET defs == IF enable THEN _collect_multi_ref_definitions(raw_result, defs0) ELSE defs0
    IN  [links |-> CollectAll(raw_result, <<>>, defs, enable), defs |-> defs]

(***************************************************************************)
(* Parser.__init__ and Parser.parse.  A Parser is the record of its        *)
(* fields; an argument of parse is [isStr, chars], isStr = FALSE for a     *)
(* value that is no str.                                                   *)
(***************************************************************************)
\* max_depth: int = 1000
DefaultMaxDepth == 1000

NewParser(max_input_size, max_depth, enable_multi_ref_context) ==
    [indentation_stack |-> <<0>>, pos |-> 0, text |-> <<>>, lines |-> <<>>,
     base_indentation |-> NoBase, max_input_size |-> max_input_size,
     max_depth |-> max_depth, enable_multi_ref_context |-> enable_multi_ref_context,
     multi_ref_definitions |-> <<>>]

Str(chars) == [isStr |-> TRUE, chars |-> chars]
NotStr == [isStr |-> FALSE, chars |-> <<>>]

\* A size check that also rejects an input of exactly the maximum size
ExceedsSizeFromMaximum(input_text, max_input_size) ==
    Len(input_text.chars) >= max_input_size

\* len(input_text) > self.max_input_size
ExceedsSize(input_text, max_input_size) == Len(input_text.chars) > max_input_size

\* A parse that leaves the definitions of the calls before it in the dict
KeepDefinitions(defs) == defs

\* self.multi_ref_definitions.clear()
ClearDefinitions(defs) == <<>>

\* A parse that leaves the base indentation of the call before it
KeepBaseIndentation(base) == base

\* self.base_indentation = None
ResetBaseIndentation(base) == NoBase

\* What a call returns or raises, and the fields after it.  outcome "hang":
\* the call never returns.
Outcome(fields, outcome, result, raw_result) ==
    [self |-> fields, outcome |-> outcome, result |-> result, raw_result |-> raw_result]

\* return self._transform_result(raw_result)
Transformed(fields, raw_result, transformed) ==
    Outcome([fields EXCEPT !.multi_ref_definitions = transformed.defs], "ok",
            transformed.links, raw_result)

\* A parse whose second pass recognizes known identities whatever the option
ParsedWithContext(fields, doc) ==
    IF doc.hang
    THEN Outcome([fields EXCEPT !.pos = doc.pos - 1, !.base_indentation = doc.base],
                 "hang", <<>>, <<>>)
    ELSE Transformed([fields EXCEPT !.pos = doc.pos - 1, !.base_indentation = doc.base],
                     doc.links,
                     _transform_result(doc.links, fields.multi_ref_definitions, TRUE))

\* parse from "raw_result = self._parse_document()" on, doc what it returns
Parsed(fields, doc) ==
    IF doc.hang
    THEN Outcome([fields EXCEPT !.pos = doc.pos - 1, !.base_indentation = doc.base],
                 "hang", <<>>, <<>>)
    ELSE Transformed([fields EXCEPT !.pos = doc.pos - 1, !.base_indentation = doc.base],
                     doc.links,
                     _transform_result(doc.links, fields.multi_ref_definitions,
                                       fields.enable_multi_ref_context))

\* parse from "self.text = input_text" on, lines the split text
Started(fields, chars, lines) ==
    Parsed([fields EXCEPT !.text = chars, !.lines = lines, !.pos = 0,
                          !.indentation_stack = <<0>>,
                          !.base_indentation = ResetBaseIndentation(@)],
           _parse_document(lines, ResetBaseIndentation(fields.base_indentation)))

\* parse from "self.multi_ref_definitions.clear()" on
Validated(fields, chars) ==
    IF chars = <<>> \/ Strip(chars) = <<>> THEN Outcome(fields, "ok", <<>>, <<>>)
    ELSE Started(fields, chars, _split_lines_respecting_quotes(chars))

parse(fields, input) ==
    IF ~input.isStr THEN Outcome(fields, "TypeError", <<>>, <<>>)
    ELSE IF ExceedsSize(input, fields.max_input_size)
    THEN Outcome(fields, "ValueError", <<>>, <<>>)
    ELSE Validated([fields EXCEPT !.multi_ref_definitions = ClearDefinitions(@)],
                   input.chars)

(***************************************************************************)
(* Link.escape_reference, Link.needs_parentheses, Link.format_value,       *)
(* Link.format with less_parentheses a bool.                               *)
(***************************************************************************)
\* escape_reference of a str
EscapeStr(reference) ==
    IF reference = <<>> \/ Strip(reference) = <<>> THEN <<>>
    ELSE IF \E c \in {COLON, LP, RP, SP, TAB, NL, CR, DQ} : Contains(reference, c)
    THEN <<SQ>> \o reference \o <<SQ>>
    ELSE IF Contains(reference, SQ) THEN <<DQ>> \o reference \o <<DQ>>
    ELSE reference

RECURSIVE EscapeEach(_)
EscapeEach(parts) ==
    IF parts = <<>> THEN <<>> ELSE <<EscapeStr(Head(parts))>> \o EscapeEach(Tail(parts))

\* escape_reference of link._ids: None, or the list of parts
escape_reference(link) ==
    IF link.hasIds THEN Join(EscapeEach(link.ids), <<SP>>) ELSE <<>>

\* needs_parentheses(self._ids): _ids is None or a list, never a str
needs_parentheses(link) == link.hasIds /\ Len(link.ids) > 1

RECURSIVE format(_, _, _)
RECURSIVE format_value(_, _)
RECURSIVE FormatValues(_, _)

format_value(self, value) ==
    IF self.path THEN format(value, FALSE, TRUE)
    ELSE IF value.values = <<>> THEN escape_reference(value)
    ELSE format(value, FALSE, FALSE)

\* [self.format_value(v) for v in values]
FormatValues(self, values) ==
    IF values = <<>> THEN <<>>
    ELSE <<format_value(self, Head(values))>> \o FormatValues(self, Tail(values))

RECURSIVE EscapeIds(_)
EscapeIds(values) ==
    IF values = <<>> THEN <<>>
    ELSE <<escape_reference(Head(values))>> \o EscapeIds(Tail(values))

Parens(s) == <<LP>> \o s \o <<RP>>

format(self, less_parentheses, is_compound_value) ==
    LET escaped_id == escape_reference(self)
        values_str == Join(FormatValues(self, self.values), <<SP>>)
        all_simple == \A k \in 1..Len(self.values) : self.values[k].values = <<>>
        with_colon == escaped_id \o <<COLON, SP>> \o values_str
    IN  IF ~self.hasIds /\ self.values = <<>>
        THEN (IF less_parentheses THEN <<>> ELSE <<LP, RP>>)
        ELSE IF self.values = <<>>
        THEN IF is_compound_value THEN Parens(escaped_id)
             ELSE IF less_parentheses /\ ~needs_parentheses(self) THEN escaped_id
             ELSE Parens(escaped_id)
        ELSE IF ~self.hasIds
        THEN IF less_parentheses
             THEN (IF all_simple THEN Join(EscapeIds(self.values), <<SP>>) ELSE values_str)
             ELSE Parens(values_str)
        ELSE IF less_parentheses /\ ~needs_parentheses(self) THEN with_colon
        ELSE Parens(with_colon)

(***************************************************************************)
(* Link.id (the property), Link.simplify, and Link.escape_reference called *)
(* with a reference: a str is StrId(s), a list of str is ListId(parts).    *)
(***************************************************************************)
\* The property that joins the parts of an identity into one str
IdJoiningParts(self) ==
    IF ~self.hasIds THEN [outcome |-> "ok", returns |-> <<>>, names |-> "", parts |-> 0]
    ELSE [outcome |-> "ok", returns |-> <<Join(self.ids, <<SP>>)>>, names |-> "", parts |-> 0]

\* Link.id: returns is <<>> for None and <<s>> for the str s; a ValueError
\* carries the number of parts and the name of the property to use instead
Link_id(self) ==
    IF ~self.hasIds THEN [outcome |-> "ok", returns |-> <<>>, names |-> "", parts |-> 0]
    ELSE IF Len(self.ids) > 1
    THEN [outcome |-> "ValueError", returns |-> <<>>, names |-> "ids", parts |-> Len(self.ids)]
    ELSE IF self.ids = <<>>
    THEN [outcome |-> "IndexError", returns |-> <<>>, names |-> "", parts |-> 0]
    ELSE [outcome |-> "ok", returns |-> <<self.ids[1]>>, names |-> "", parts |-> 0]

\* A simplify that returns the receiver whatever its values
SimplifyToSelf(self) == self

\* Link.simplify
RECURSIVE simplify(_)
RECURSIVE SimplifyEach(_)
SimplifyEach(values) ==
    IF values = <<>> THEN <<>> ELSE <<simplify(Head(values))>> \o SimplifyEach(Tail(values))

simplify(self) ==
    IF self.values = <<>> THEN self
    ELSE IF Len(self.values) = 1 THEN self.values[1]
    ELSE Link(self.hasIds, ListId(self.ids), SimplifyEach(self.values))

\* Link.escape_reference(reference)
EscapeReference(reference) ==
    IF reference.isList THEN Join(EscapeEach(reference.parts), <<SP>>)
    ELSE EscapeStr(reference.parts[1])

(***************************************************************************)
(* Tokenizer.  A Tokenizer is the record of its fields; a character passed *)
(* to _is_digit and _is_alphanumeric is a str of length 1 or the empty     *)
(* str: <<c>> or <<>>.                                                     *)
(***************************************************************************)
COMMA == ","
MINUS == "-"

DEFAULT_PUNCTUATION_SYMBOLS == <<COMMA, ".", ";", "!", "?">>

DEFAULT_MATH_SYMBOLS == <<"+", MINUS, "*", "/", "=", "<", ">", "%", "^">>

\* str.isdigit and str.isalnum on the characters of the model
Digits == {"0", "1", "2", "3", "4", "5", "6", "7", "8", "9"}

Letters ==
    {"a", "b", "c", "d", "e", "f", "g", "h", "i", "j", "k", "l", "m", "n", "o", "p", "q",
     "r", "s", "t", "u", "v", "w", "x", "y", "z"}

\* Tokenizer.__init__ with the default symbols
NewTokenizer(enabled) ==
    [punctuation_symbols |-> DEFAULT_PUNCTUATION_SYMBOLS,
     math_symbols |-> DEFAULT_MATH_SYMBOLS, enabled |-> enabled]

_is_digit(char) == char # <<>> /\ char[1] \in Digits

_is_alphanumeric(char) == char # <<>> /\ char[1] \in (Digits \cup Letters)

\* char in symbols, symbols a list
InList(char, symbols) == \E k \in 1..Len(symbols) : symbols[k] = char

\* chars[i - 1] if i > 0 else '' and chars[i + 1] if i + 1 < len(chars) else ''
PrevChar(chars, i) == IF i > 1 THEN <<chars[i - 1]>> ELSE <<>>
NextChar(chars, i) == IF i + 1 <= Len(chars) THEN <<chars[i + 1]>> ELSE <<>>

\* The space added in front of a symbol: if result and not result[-1] in ' \t\n'
SpaceBefore(result) ==
    IF result # <<>> /\ result[Len(result)] \notin {SP, TAB, NL} THEN <<SP>> ELSE <<>>

\* A punctuation rule that puts a space on both sides whenever it splits
PunctuationBothSides(chars, i, result) ==
    IF _is_alphanumeric(PrevChar(chars, i))
    THEN SpaceBefore(result) \o <<chars[i], SP>>
    ELSE <<chars[i]>>

\* What tokenize appends for the punctuation symbol chars[i]
PunctuationOut(chars, i, result) ==
    IF _is_alphanumeric(PrevChar(chars, i))
    THEN SpaceBefore(result) \o <<chars[i]>>
         \o (IF _is_alphanumeric(NextChar(chars, i)) THEN <<SP>> ELSE <<>>)
    ELSE <<chars[i]>>

\* What tokenize appends for the math symbol chars[i]
MathOut(chars, i, result) ==
    IF _is_digit(PrevChar(chars, i)) /\ _is_digit(NextChar(chars, i))
    THEN SpaceBefore(result) \o <<chars[i], SP>>
    ELSE <<chars[i]>>

\* The loop of tokenize from chars[i] on
RECURSIVE TokenizeLoop(_, _, _, _, _, _)
TokenizeLoop(self, chars, i, in_single_quote, in_double_quote, result) ==
    IF i > Len(chars) THEN result
    ELSE IF chars[i] = DQ /\ ~in_single_quote
    THEN TokenizeLoop(self, chars, i + 1, in_single_quote, ~in_double_quote,
                      Append(result, chars[i]))
    ELSE IF chars[i] = SQ /\ ~in_double_quote
    THEN TokenizeLoop(self, chars, i + 1, ~in_single_quote, in_double_quote,
                      Append(result, chars[i]))
    ELSE IF in_single_quote \/ in_double_quote
    THEN TokenizeLoop(self, chars, i + 1, in_single_quote, in_double_quote,
                      Append(result, chars[i]))
    ELSE IF InList(chars[i], self.punctuation_symbols)
    THEN TokenizeLoop(self, chars, i + 1, in_single_quote, in_double_quote,
                      result \o PunctuationOut(chars, i, result))
    ELSE IF InList(chars[i], self.math_symbols)
    THEN TokenizeLoop(self, chars, i + 1, in_single_quote, in_double_quote,
                      result \o MathOut(chars, i, result))
    ELSE TokenizeLoop(self, chars, i + 1, in_single_quote, in_double_quote,
                      Append(result, chars[i]))

\* Tokenizer.tokenize
tokenize(self, input) ==
    IF ~self.enabled THEN input ELSE TokenizeLoop(self, input, 1, FALSE, FALSE, <<>>)

\* prev_char in all_symbols or next_char in all_symbols, for the space
\* chars[i]: prev_char is result[-1], next_char is chars[i + 1]
SpaceSkipped(self, chars, i, result) ==
    \/ (result # <<>> /\ (InList(result[Len(result)], self.punctuation_symbols)
                            \/ InList(result[Len(result)], self.math_symbols)))
    \/ (i + 1 <= Len(chars) /\ (InList(chars[i + 1], self.punctuation_symbols)
                                  \/ InList(chars[i + 1], self.math_symbols)))

\* The loop of compact from chars[i] on
RECURSIVE CompactLoop(_, _, _, _, _, _)
CompactLoop(self, chars, i, in_single_quote, in_double_quote, result) ==
    IF i > Len(chars) THEN result
    ELSE IF chars[i] = DQ /\ ~in_single_quote
    THEN CompactLoop(self, chars, i + 1, in_single_quote, ~in_double_quote,
                     Append(result, chars[i]))
    ELSE IF chars[i] = SQ /\ ~in_double_quote
    THEN CompactLoop(self, chars, i + 1, ~in_single_quote, in_double_quote,
                     Append(result, chars[i]))
    ELSE IF in_single_quote \/ in_double_quote
    THEN CompactLoop(self, chars, i + 1, in_single_quote, in_double_quote,
                     Append(result, chars[i]))
    ELSE IF chars[i] = SP /\ SpaceSkipped(self, chars, i, result)
    THEN CompactLoop(self, chars, i + 1, in_single_quote, in_double_quote, result)
    ELSE CompactLoop(self, chars, i + 1, in_single_quote, in_double_quote,
                     Append(result, chars[i]))

\* Tokenizer.compact
compact(self, output) ==
    IF ~self.enabled THEN output ELSE CompactLoop(self, output, 1, FALSE, FALSE, <<>>)

(***************************************************************************)
(* FormatConfig, as the specification describes its options, and           *)
(* Link._format_with_config, Link._format_indented (link.py).              *)
(***************************************************************************)
\* A formatting policy: the two thresholds are numbers
NewFormatConfig(less_parentheses, max_line_length, max_inline_refs, prefer_inline, indent_string) ==
    [less_parentheses |-> less_parentheses, max_line_length |-> max_line_length,
     max_inline_refs |-> max_inline_refs, prefer_inline |-> prefer_inline,
     indent_string |-> indent_string]

\* The value count exceeds the threshold
should_indent_by_ref_count(config, ref_count) == ref_count > config.max_inline_refs

\* The single-line rendering exceeds the threshold
should_indent_by_length(config, line) == Len(line) > config.max_line_length

\* test_line: the line _format_with_config measures
TestLine(self, config, id_str, values_str) ==
    IF self.hasIds
    THEN (IF config.less_parentheses THEN id_str \o <<COLON, SP>> \o values_str
          ELSE Parens(id_str \o <<COLON, SP>> \o values_str))
    ELSE (IF config.less_parentheses THEN values_str ELSE Parens(values_str))

\* should_indent, for a link with values
ShouldIndent(self, config) ==
    IF should_indent_by_ref_count(config, Len(self.values)) THEN TRUE
    ELSE should_indent_by_length(
             config,
             TestLine(self, config, escape_reference(self),
                      Join(FormatValues(self, self.values), <<SP>>)))

\* config.indent_string + line, for every line
RECURSIVE IndentEach(_, _)
IndentEach(indent_string, lines) ==
    IF lines = <<>> THEN <<>>
    ELSE <<indent_string \o Head(lines)>> \o IndentEach(indent_string, Tail(lines))

\* Link._format_indented
_format_indented(self, config) ==
    IF ~self.hasIds
    THEN Join(IndentEach(config.indent_string, FormatValues(self, self.values)), <<NL>>)
    ELSE Join(<<escape_reference(self) \o <<COLON>>>>
              \o IndentEach(config.indent_string, FormatValues(self, self.values)), <<NL>>)

\* Link._format_with_config: the branches before and after the decision are
\* those of format with config.less_parentheses
_format_with_config(self, config, is_compound_value) ==
    IF self.values = <<>> THEN format(self, config.less_parentheses, is_compound_value)
    ELSE IF ShouldIndent(self, config) /\ config.prefer_inline = FALSE
    THEN _format_indented(self, config)
    ELSE format(self, config.less_parentheses, FALSE)

(***************************************************************************)
(* The state: one Parser instance (self) and its client.  calls holds the  *)
(* arguments of the parse calls the client is still to make, in order;     *)
(* history the argument and the outcome of every call made; input_text,    *)
(* outcome, result and raw_result belong to the latest call.               *)
(***************************************************************************)
VARIABLES self, calls, history, input_text, outcome, result, raw_result

vars == <<self, calls, history, input_text, outcome, result, raw_result>>

\* max_input_size: int = 10 * 1024 * 1024
DefaultMaxInputSize == 10 * 1024 * 1024

\* The state after Parser(max_input_size, max_depth, enable_multi_ref_context),
\* the client holding one of call_lists.
InitWith(call_lists, sizes, depths, enables) ==
    /\ \E size \in sizes, depth \in depths, enable \in enables :
          self = NewParser(size, depth, enable)
    /\ calls \in call_lists
    /\ history = <<>>
    /\ input_text = Str(<<>>)
    /\ outcome = "none"
    /\ result = <<>>
    /\ raw_result = <<>>

\* The call leaves r.self in the instance and r.outcome, r.result with the client.
Returns(r) ==
    /\ self' = r.self
    /\ outcome' = r.outcome
    /\ result' = r.result
    /\ raw_result' = r.raw_result
    /\ history' = Append(history, [input |-> Head(calls), outcome |-> r.outcome])

\* parser.parse(Head(calls)).  A call that hangs never returns: no call
\* follows it.
Call ==
    /\ calls # <<>>
    /\ outcome # "hang"
    /\ Returns(parse(self, Head(calls)))
    /\ input_text' = Head(calls)
    /\ calls' = Tail(calls)

Next == Call

\* The Parser the latest call would have met had it been the first.
Fresh == NewParser(self.max_input_size, self.max_depth, self.enable_multi_ref_context)

\* All sequences over S of length at most n
SeqsUpTo(S, n) == UNION {[1..k -> S] : k \in 0..n}

\* The one-call lists over a set of texts
OneCall(texts) == {<<Str(t)>> : t \in texts}

(***************************************************************************)
(* Spec: one Parser reused for up to MaxCalls calls.                       *)
(***************************************************************************)
MaxCalls == 2
SmallInputSize == 8
SmallDepth == 1

ReuseInputs ==
    { NotStr,
      Str(<<>>),
      Str(<<SP>>),
      Str(<<"a", SP, "b">>),
      Str(<<LP, "a", SP, "b", COLON, SP, "c", RP>>),
      Str(<<SP, SP, "a", NL, SP, SP, "b">>),
      Str(<<"a", NL, SP, SP, "b">>),
      Str(<<LP, LP, "a", RP, RP>>),
      Str(<<LP, "a", SP, "b", COLON, SP, "c", SP, "d", RP>>),
      Str(<<"a", NL, SP, "b">>) }

Init == InitWith(SeqsUpTo(ReuseInputs, MaxCalls), {SmallInputSize}, {SmallDepth}, BOOLEAN)

Spec == Init /\ [][Next]_vars

(***************************************************************************)
(* Measures the properties below speak of.                                 *)
(***************************************************************************)
\* The identities of two or more parts among links and their values, at any depth
RECURSIVE MultiPartsIn(_)
MultiPartsIn(links) ==
    IF links = <<>> THEN {}
    ELSE (IF Head(links).hasIds /\ Len(Head(links).ids) > 1 THEN {Head(links).ids} ELSE {})
         \cup MultiPartsIn(Head(links).values) \cup MultiPartsIn(Tail(links))

\* Whether sub occurs in text
Occurs(sub, text) == \E i \in 1..Len(text) : StartsWithAt(text, i, sub)

\* Whether text writes parts, single-spaced, right before a colon
DefinedInText(parts, text) == Occurs(Join(parts, <<SP>>) \o <<COLON>>, text)

\* The deepest parenthesis nesting of text, outside quotes
RECURSIVE ParenDepthFrom(_, _, _)
ParenDepthFrom(text, i, st) ==
    IF i > Len(text) THEN 0
    ELSE Max(ScanStep(st, text[i]).p, ParenDepthFrom(text, i + 1, ScanStep(st, text[i])))

ParenDepth(text) == ParenDepthFrom(text, 1, ScanStart(0))

\* The recursion depth the parser reached building items: a line is parsed
\* in one _parse_element frame, each of its child lines one frame deeper;
\* a parenthesized value is parsed in a _parse_value frame inside the frame
\* of the list that holds it.
RECURSIVE RecursionDepth(_)
RecursionDepth(items) ==
    IF items = <<>> THEN 0
    ELSE Max(IF Head(items).hasValues
             THEN 1 + Max(RecursionDepth(Head(items).values),
                          RecursionDepth(Head(items).children))
             ELSE 0,
             RecursionDepth(Tail(items)))

(***************************************************************************)
(* C2: a Parser is safe for sequential reuse: whatever calls came before   *)
(* (successful, empty-input or failed), a call returns or raises what the  *)
(* same call on a freshly constructed Parser with the same options does,   *)
(* and a call that got as far as parsing leaves the fields the fresh       *)
(* Parser would hold.                                                      *)
(***************************************************************************)
C2_ReuseEqualsFresh ==
    outcome # "none" =>
        /\ outcome = parse(Fresh, input_text).outcome
        /\ result = parse(Fresh, input_text).result
        /\ (outcome \in {"ok", "hang"} /\ Strip(input_text.chars) # <<>>)
              => self = parse(Fresh, input_text).self

\* A second call, after a call whose first line was indented (a base
\* indentation other than 0 was left behind), that parses a parent and its child.
C2_Witness ==
    /\ Len(history) = 2
    /\ history[1].outcome = "ok"
    /\ history[1].input.isStr
    /\ RawIndent(history[1].input.chars) > 0
    /\ outcome = "ok"
    /\ self.base_indentation = 0
    /\ Len(result) = 2
    /\ result[2].path

(***************************************************************************)
(* C3: the multi-reference dictionary does not persist: every identity of  *)
(* two or more parts in the links a call returns is defined in the text of *)
(* that call, never only in the text of an earlier call.                   *)
(***************************************************************************)
C3_NoDefinitionPersists ==
    outcome = "ok" =>
        \A parts \in MultiPartsIn(result) : DefinedInText(parts, input_text.chars)

\* After a call that defined (a b: ...), a call on "a b" that keeps a and b apart.
C3_Witness ==
    /\ Len(history) = 2
    /\ history[1].outcome = "ok"
    /\ DefinedInText(<<<<"a">>, <<"b">>>>, history[1].input.chars)
    /\ self.enable_multi_ref_context
    /\ outcome = "ok"
    /\ input_text.chars = <<"a", SP, "b">>
    /\ Len(result) = 1
    /\ Len(result[1].values) = 2

(***************************************************************************)
(* C4: parse bounds nesting with max_depth: an input nested deeper than    *)
(* max_depth fails with an error, and the recursion depth reached while    *)
(* parsing never exceeds max_depth.                                        *)
(***************************************************************************)
C4_DepthBounded ==
    (outcome # "none" /\ input_text.isStr) =>
        /\ ParenDepth(input_text.chars) > self.max_depth
              => outcome \in {"TypeError", "ValueError", "ParseError"}
        /\ RecursionDepth(raw_result) <= self.max_depth

(***************************************************************************)
(* C5: validation errors surface unwrapped: TypeError exactly for an input *)
(* that is no str, ValueError exactly for a str longer than                *)
(* max_input_size (a str of exactly that length is accepted); neither      *)
(* becomes ParseError and neither returns links.                           *)
(***************************************************************************)
C5_ValidationErrors ==
    outcome # "none" =>
        /\ (outcome = "TypeError") <=> ~input_text.isStr
        /\ (outcome = "ValueError") <=>
              (input_text.isStr /\ Len(input_text.chars) > self.max_input_size)
        /\ outcome \in {"TypeError", "ValueError"} => result = <<>>
        /\ outcome # "ParseError"

\* An input of exactly max_input_size characters, parsed.
C5_Witness ==
    /\ outcome = "ok"
    /\ Len(input_text.chars) = self.max_input_size
    /\ result # <<>>

(***************************************************************************)
(* SpecRoundTrip: one call on a syntactically clean single-line text: an   *)
(* optional identity (a word, two words, a quoted string), then values     *)
(* (words, quoted strings, nested parenthesized forms), bare or wrapped in *)
(* parentheses.                                                            *)
(***************************************************************************)
MaxCleanValues == 2

QuotedAB == <<SQ, "a", SP, "b", SQ>>

CleanIds == { <<>>, <<"a">>, <<"a", SP, "b">>, QuotedAB }

CleanValues == { <<"b">>, QuotedAB, <<LP, "a", RP>>, <<LP, "a", COLON, SP, "b", RP>> }

CleanBody(id, values) ==
    IF id = <<>> THEN Join(values, <<SP>>) ELSE id \o <<COLON, SP>> \o Join(values, <<SP>>)

CleanTexts ==
    { IF wrap THEN Parens(CleanBody(id, values)) ELSE CleanBody(id, values) :
        id \in CleanIds,
        values \in SeqsUpTo(CleanValues, MaxCleanValues) \ {<<>>},
        wrap \in BOOLEAN }

InitRoundTrip ==
    InitWith(OneCall(CleanTexts), {DefaultMaxInputSize}, {DefaultMaxDepth}, {TRUE})

SpecRoundTrip == InitRoundTrip /\ [][Next]_vars

(***************************************************************************)
(* C1: round trip: formatting what parse returned for a clean text with    *)
(* less_parentheses = true and parsing the output again gives a tree       *)
(* identical (identity and children, recursively) to the first.            *)
(***************************************************************************)
C1_RoundTrip ==
    (outcome = "ok" /\ Len(result) = 1) =>
        /\ parse(Fresh, Str(format(result[1], TRUE, FALSE))).outcome = "ok"
        /\ LinksEq(parse(Fresh, Str(format(result[1], TRUE, FALSE))).result, result)

(***************************************************************************)
(* SpecIndent: one call on a document of up to MaxLines lines, each line   *)
(* blank or a word or an indented-id "b:" behind 0, 1, 2 or 4 spaces.      *)
(***************************************************************************)
MaxLines == 3
MaxShift == 2

Indents == {0, 1, 2, 4}

IndentLines ==
    {<<>>} \cup { Repeat(SP, n) \o content : n \in Indents, content \in {<<"a">>, <<"b", COLON>>} }

IndentDocs == { Join(doc, <<NL>>) : doc \in SeqsUpTo(IndentLines, MaxLines) \ {<<>>} }

InitIndent ==
    InitWith(OneCall(IndentDocs), {DefaultMaxInputSize}, {DefaultMaxDepth}, {TRUE})

SpecIndent == InitIndent /\ [][Next]_vars

\* text cut at every newline (the documents above hold no quote and no
\* parenthesis: each piece is a logical line)
RECURSIVE CutLines(_, _, _)
CutLines(text, i, current) ==
    IF i > Len(text) THEN <<current>>
    ELSE IF text[i] = NL THEN <<current>> \o CutLines(text, i + 1, <<>>)
    ELSE CutLines(text, i + 1, Append(current, text[i]))

\* text with k more spaces in front of every line
AddIndent(text, k) ==
    Join([n \in 1..Len(CutLines(text, 1, <<>>)) |->
             Repeat(SP, k) \o CutLines(text, 1, <<>>)[n]], <<NL>>)

\* text with the leading spaces of every line doubled
DoubleIndent(text) ==
    Join([n \in 1..Len(CutLines(text, 1, <<>>)) |->
             Repeat(SP, RawIndent(CutLines(text, 1, <<>>)[n])) \o CutLines(text, 1, <<>>)[n]],
         <<NL>>)

\* Every line of text is indented by a multiple of two spaces
EvenIndents(text) ==
    \A n \in 1..Len(CutLines(text, 1, <<>>)) : RawIndent(CutLines(text, 1, <<>>)[n]) % 2 = 0

\* The first line of lines that is not blank
FirstContentLine(lines) ==
    lines[CHOOSE n \in 1..Len(lines) :
             /\ Strip(lines[n]) # <<>>
             /\ \A m \in 1..(n - 1) : Strip(lines[m]) = <<>>]

(***************************************************************************)
(* C6: indentation normalization: the same k more leading spaces on every  *)
(* logical line do not change what parse does, the base indentation being  *)
(* the indentation of the first non-blank logical line.                    *)
(***************************************************************************)
C6_UniformShift ==
    (outcome # "none" /\ Strip(input_text.chars) # <<>>) =>
        /\ self.base_indentation = RawIndent(FirstContentLine(self.lines))
        /\ \A k \in 1..MaxShift :
              /\ parse(Fresh, Str(AddIndent(input_text.chars, k))).outcome = outcome
              /\ parse(Fresh, Str(AddIndent(input_text.chars, k))).result = result

\* A document whose first line is indented, parsed into a link with a child.
C6_Witness ==
    /\ outcome = "ok"
    /\ self.base_indentation > 0
    /\ Len(self.lines) >= 2
    /\ Len(result) = 1
    /\ result[1].hasIds
    /\ Len(result[1].values) >= 1

(***************************************************************************)
(* C7: indentation equivalence: a document nested with 2 spaces per level  *)
(* and the same document written with 4 spaces per level parse to          *)
(* structurally identical trees, at every nesting depth.                   *)
(***************************************************************************)
C7_TwoVsFourSpaces ==
    (outcome # "none" /\ EvenIndents(input_text.chars)) =>
        /\ parse(Fresh, Str(DoubleIndent(input_text.chars))).outcome = outcome
        /\ LinksEq(parse(Fresh, Str(DoubleIndent(input_text.chars))).result, result)

\* A three-level nesting, the levels 0, 2 and 4 spaces deep, parsed.
C7_Witness ==
    /\ outcome = "ok"
    /\ Len(self.lines) = 3
    /\ RawIndent(self.lines[1]) = 0
    /\ RawIndent(self.lines[2]) = 2
    /\ RawIndent(self.lines[3]) = 4
    /\ EndsWith(self.lines[1], <<COLON>>)
    /\ EndsWith(self.lines[2], <<COLON>>)
    /\ result # <<>>

(***************************************************************************)
(* SpecColon: one call on a colon form: an identity of 1..MaxIdWords bare  *)
(* words or one quoted run, then 1..MaxColonValues words, written inline   *)
(* ("ID: v1 v2"), in parentheses ("(ID: v1 v2)") or as an indented id      *)
(* ("ID:" and one child line per value).                                   *)
(***************************************************************************)
MaxIdWords == 3
MaxColonValues == 2

ColonWords == { <<"a">>, <<"b">> }

BareIdWords == SeqsUpTo(ColonWords, MaxIdWords) \ {<<>>}

QuotedContents == { <<"a">>, <<"a", SP, "b">> }

ColonQuotes == { SQ, DQ, BT }

ColonValues == SeqsUpTo(ColonWords, MaxColonValues) \ {<<>>}

ColonShapes == {"inline", "paren", "indented"}

ColonText(id, values, shape) ==
    IF shape = "inline" THEN id \o <<COLON, SP>> \o Join(values, <<SP>>)
    ELSE IF shape = "paren" THEN Parens(id \o <<COLON, SP>> \o Join(values, <<SP>>))
    ELSE id \o <<COLON>> \o Join([n \in 1..Len(values) |-> <<NL, SP, SP>> \o values[n]], <<>>)

ColonTexts ==
    { ColonText(Join(words, <<SP>>), values, shape) :
        words \in BareIdWords, values \in ColonValues, shape \in ColonShapes }
    \cup
    { ColonText(<<q>> \o content \o <<q>>, values, shape) :
        q \in ColonQuotes, content \in QuotedContents, values \in ColonValues,
        shape \in ColonShapes }

InitColon ==
    InitWith(OneCall(ColonTexts), {DefaultMaxInputSize}, {DefaultMaxDepth}, BOOLEAN)

SpecColon == InitColon /\ [][Next]_vars

\* The links of plain words
WordLinks(words) == [n \in 1..Len(words) |-> Link(TRUE, StrId(words[n]), <<>>)]

(***************************************************************************)
(* C8: multi-reference parsing: k >= 2 bare words before the colon give    *)
(* the link a MultiPart identity of exactly those words in order, in the   *)
(* parenthesized form and in the indented-id form; one bare word gives a   *)
(* Scalar identity.                                                        *)
(***************************************************************************)
C8_BareWordsIdentity ==
    \A words \in BareIdWords, values \in ColonValues, shape \in {"paren", "indented"} :
        (outcome # "none" /\ input_text.chars = ColonText(Join(words, <<SP>>), values, shape)) =>
            /\ outcome = "ok"
            /\ Len(result) = 1
            /\ result[1].hasIds
            /\ result[1].ids = words
            /\ Len(raw_result) = 1
            /\ raw_result[1].hasId
            /\ raw_result[1].id.isList = (Len(words) >= 2)
            /\ raw_result[1].id.parts = (IF Len(words) >= 2 THEN words ELSE <<words[1]>>)

\* A three-word identity of an indented-id form, parsed.
C8_Witness ==
    /\ outcome = "ok"
    /\ input_text.chars = ColonText(<<"a", SP, "b", SP, "a">>, <<<<"b">>, <<"a">>>>, "indented")
    /\ result[1].ids = << <<"a">>, <<"b">>, <<"a">> >>

(***************************************************************************)
(* C9: a quoted run used as the identity of a colon form becomes one       *)
(* atomic Scalar identity (delimiters removed, never split) for single,    *)
(* double and backtick quotes, the post-colon words being its values, and  *)
(* the same link results standing alone or wrapped in one pair of          *)
(* parentheses.                                                            *)
(***************************************************************************)
C9_QuotedIdentity ==
    \A q \in ColonQuotes, content \in QuotedContents, values \in ColonValues,
       shape \in {"inline", "paren"} :
        (outcome # "none"
            /\ input_text.chars = ColonText(<<q>> \o content \o <<q>>, values, shape)) =>
            /\ outcome = "ok"
            /\ result = <<Link(TRUE, StrId(content), WordLinks(values))>>

(***************************************************************************)
(* SpecContext: one call on a text that defines MultiPart identities (as   *)
(* the identity of a top-level link, of an inline value, of a child line;  *)
(* two identities that overlap; an identity that is the prefix of a longer *)
(* one) and uses words in the inline value list of the link "y", the use   *)
(* before or after the definition.                                         *)
(***************************************************************************)
MaxUseValues == 3

UseWords == { <<"a">>, <<"b">>, <<"c">> }

UseValues == SeqsUpTo(UseWords, MaxUseValues) \ {<<>>}

AB == << <<"a">>, <<"b">> >>

DefParts ==
    { [text |-> <<LP, "a", SP, "b", COLON, SP, "x", RP>>, defs |-> {AB}],
      [text |-> <<LP, "x", COLON, SP, LP, "a", SP, "b", COLON, SP, "x", RP, RP>>,
       defs |-> {AB}],
      [text |-> <<"x", NL, SP, SP, LP, "a", SP, "b", COLON, SP, "x", RP>>, defs |-> {AB}],
      [text |-> <<LP, "a", SP, "b", COLON, SP, "x", RP, NL,
                  LP, "b", SP, "a", COLON, SP, "x", RP>>,
       defs |-> {AB, << <<"b">>, <<"a">> >>}],
      [text |-> <<LP, "a", SP, "a", COLON, SP, "x", RP>>,
       defs |-> {<< <<"a">>, <<"a">> >>}],
      [text |-> <<LP, "a", SP, "b", COLON, SP, "x", RP, NL,
                  LP, "a", SP, "b", SP, "a", COLON, SP, "x", RP>>,
       defs |-> {AB, << <<"a">>, <<"b">>, <<"a">> >>}],
      [text |-> <<LP, "a", SP, "b", SP, "a", COLON, SP, "x", RP, NL,
                  LP, "a", SP, "b", COLON, SP, "x", RP>>,
       defs |-> {AB, << <<"a">>, <<"b">>, <<"a">> >>}] }

UseLine(values) == <<"y", COLON, SP>> \o Join(values, <<SP>>)

ContextText(part, values, use_first) ==
    IF use_first THEN UseLine(values) \o <<NL>> \o part.text
    ELSE part.text \o <<NL>> \o UseLine(values)

ContextTexts ==
    { ContextText(part, values, use_first) :
        part \in DefParts, values \in UseValues, use_first \in BOOLEAN }

InitContext ==
    InitWith(OneCall(ContextTexts), {DefaultMaxInputSize}, {DefaultMaxDepth}, BOOLEAN)

SpecContext == InitContext /\ [][Next]_vars

\* The values of the link "y" of links
UseOf(links) ==
    SelectSeq(links, LAMBDA l : l.hasIds /\ l.ids = << <<"y">> >>)[1].values

\* The words of values, the parts of every identity in order
RECURSIVE Flatten(_)
Flatten(values) ==
    IF values = <<>> THEN <<>> ELSE Head(values).ids \o Flatten(Tail(values))

\* The position in the written value list where values[n] starts
StartOf(values, n) == 1 + Len(Flatten(SubSeq(values, 1, n - 1)))

\* The words from position i on are the parts d in order
MatchesAt(words, i, d) ==
    /\ i + Len(d) - 1 <= Len(words)
    /\ \A j \in 1..Len(d) : words[i + j - 1] = d[j]

\* The values out are the written words, every value a word or a defined
\* identity that stands where it is written
RunsOfDefined(out, words, defs) ==
    /\ Flatten(out) = words
    /\ \A n \in 1..Len(out) :
          /\ out[n].hasIds
          /\ out[n].values = <<>>
          /\ Len(out[n].ids) >= 2 => out[n].ids \in defs

(***************************************************************************)
(* C10 as written: context-aware recognition: when the text defines a      *)
(* MultiPart identity anywhere, every run of consecutive plain single-word *)
(* values in an inline value list that equals its parts in order is        *)
(* replaced by one value carrying that identity; other words remain        *)
(* separate values.                                                        *)
(***************************************************************************)
C10_EveryRunReplaced ==
    \A part \in DefParts, values \in UseValues, use_first \in BOOLEAN :
        (outcome # "none" /\ self.enable_multi_ref_context
            /\ input_text.chars = ContextText(part, values, use_first)) =>
            /\ outcome = "ok"
            /\ RunsOfDefined(UseOf(result), values, part.defs)
            /\ \A d \in part.defs, i \in 1..Len(values) :
                  MatchesAt(values, i, d) =>
                      \E n \in 1..Len(UseOf(result)) :
                          /\ StartOf(UseOf(result), n) = i
                          /\ UseOf(result)[n].ids = d

(***************************************************************************)
(* C10 amended: the value list is scanned left to right; at each position  *)
(* the scan reaches, the longest defined identity whose parts equal the    *)
(* plain single-word values from there on replaces them by one value, and  *)
(* the scan goes on behind it; where none matches the word remains a       *)
(* separate value.  A run that overlaps a run already replaced is not      *)
(* replaced.                                                               *)
(***************************************************************************)
C10_GreedyRunsReplaced ==
    \A part \in DefParts, values \in UseValues, use_first \in BOOLEAN :
        (outcome # "none" /\ self.enable_multi_ref_context
            /\ input_text.chars = ContextText(part, values, use_first)) =>
            /\ outcome = "ok"
            /\ RunsOfDefined(UseOf(result), values, part.defs)
            /\ \A n \in 1..Len(UseOf(result)), d \in part.defs :
                  MatchesAt(values, StartOf(UseOf(result), n), d) =>
                      /\ MatchesAt(values, StartOf(UseOf(result), n), UseOf(result)[n].ids)
                      /\ Len(UseOf(result)[n].ids) >= Len(d)

\* "a b a" used before (a b: x) and (a b a: x) are defined: the longer
\* identity replaced the three words.
C10_Witness ==
    /\ outcome = "ok"
    /\ self.enable_multi_ref_context
    /\ \E part \in DefParts :
          /\ Cardinality(part.defs) = 2
          /\ StartsWith(part.text, <<LP, "a", SP, "b", COLON>>)
          /\ input_text.chars = ContextText(part, << <<"a">>, <<"b">>, <<"a">> >>, TRUE)
          /\ Len(UseOf(result)) = 1
          /\ UseOf(result)[1].ids = << <<"a">>, <<"b">>, <<"a">> >>

\* The written values of the item "y" of the parsed items
UseOfRaw(items) ==
    SelectSeq(items, LAMBDA item : item.hasId /\ item.id = StrId(<<"y">>))[1].values

\* The known identities whose parts are the plain words from position i on
KnownMatchesAt(defs, values, i) ==
    { defs[k].val : k \in { k \in 1..Len(defs) : PartsMatch(values, i, defs[k].val) } }

(***************************************************************************)
(* C11: greedy matching: when several known MultiPart identities match the *)
(* values starting at the same position of a value list, the identity with *)
(* the most parts is chosen, in whatever order the definitions appear in   *)
(* the text.                                                               *)
(***************************************************************************)
C11_LongestIdentityWins ==
    (outcome = "ok" /\ self.enable_multi_ref_context) =>
        \A i \in 1..Len(UseOfRaw(raw_result)) :
            /\ _try_match_multi_ref(UseOfRaw(raw_result), i, self.multi_ref_definitions).found
                   = (KnownMatchesAt(self.multi_ref_definitions, UseOfRaw(raw_result), i) # {})
            /\ \A d \in KnownMatchesAt(self.multi_ref_definitions, UseOfRaw(raw_result), i) :
                  /\ _try_match_multi_ref(UseOfRaw(raw_result), i,
                                          self.multi_ref_definitions).multi_ref
                         \in KnownMatchesAt(self.multi_ref_definitions, UseOfRaw(raw_result), i)
                  /\ Len(_try_match_multi_ref(UseOfRaw(raw_result), i,
                                              self.multi_ref_definitions).multi_ref) >= Len(d)

\* (a b a: x) is defined before (a b: x), "a b a" is used behind both, and
\* both identities match at the first value: the three words became one value.
C11_Witness ==
    /\ outcome = "ok"
    /\ self.enable_multi_ref_context
    /\ Len(self.multi_ref_definitions) = 2
    /\ Len(self.multi_ref_definitions[1].val) = 3
    /\ Cardinality(KnownMatchesAt(self.multi_ref_definitions, UseOfRaw(raw_result), 1)) = 2
    /\ Len(UseOf(result)) = 1
    /\ Len(UseOf(result)[1].ids) = 3

(***************************************************************************)
(* C12: with enable_multi_ref_context = false the words before a colon are *)
(* still parsed as a MultiPart identity, but no run of values is ever      *)
(* collapsed: every word of a value list stays its own single-word value.  *)
(***************************************************************************)
C12_DisabledNeverCollapses ==
    \A part \in DefParts, values \in UseValues, use_first \in BOOLEAN :
        (outcome # "none" /\ ~self.enable_multi_ref_context
            /\ input_text.chars = ContextText(part, values, use_first)) =>
            /\ outcome = "ok"
            /\ UseOf(result) = WordLinks(values)
            /\ MultiPartsIn(result) = part.defs

\* Recognition is off, (a b: x) is defined and "a b" is used behind it: the
\* two words are two values.
C12_Witness ==
    /\ outcome = "ok"
    /\ ~self.enable_multi_ref_context
    /\ AB \in MultiPartsIn(result)
    /\ UseOf(result) = WordLinks(AB)

(***************************************************************************)
(* SpecColonDepth: one call on a line that holds a colon inside a quoted   *)
(* string (opened and closed by 1..MaxShieldRun quote characters) or       *)
(* inside a balanced parenthesis span, behind a word, behind an identity   *)
(* and its colon, or behind a parenthesized value; bare or wrapped in      *)
(* parentheses.                                                            *)
(***************************************************************************)
MaxShieldRun == 2

ShieldContents == { <<"a", COLON, "b">>, <<COLON>> }

\* A value with a colon inside, and the link it denotes
QuotedShields ==
    { [text |-> Repeat(q, n) \o content \o Repeat(q, n),
       link |-> Link(TRUE, StrId(content), <<>>)] :
        q \in ColonQuotes, n \in 1..MaxShieldRun, content \in ShieldContents }

ParenShields ==
    { [text |-> <<LP, "c", COLON, SP, "d", RP>>,
       link |-> Link(TRUE, StrId(<<"c">>), WordLinks(<< <<"d">> >>))],
      [text |-> <<LP, "c", SP, "d", COLON, SP, "e", RP>>,
       link |-> Link(TRUE, ListId(<< <<"c">>, <<"d">> >>), WordLinks(<< <<"e">> >>))] }

Shields == QuotedShields \cup ParenShields

\* What stands in front of the value, and the link of the whole line
ShieldFronts == {"word", "identity", "parenthesized"}

ShieldText(front, shield, wrap) ==
    LET body == (IF front = "word" THEN <<"x", SP>>
                 ELSE IF front = "identity" THEN <<"k", COLON, SP>>
                 ELSE <<LP, "a", SP, "b", RP, SP>>) \o shield.text
    IN  IF wrap THEN Parens(body) ELSE body

ShieldLink(front, shield) ==
    IF front = "word"
    THEN Link(FALSE, NoId, <<Link(TRUE, StrId(<<"x">>), <<>>), shield.link>>)
    ELSE IF front = "identity"
    THEN Link(TRUE, StrId(<<"k">>), <<shield.link>>)
    ELSE Link(FALSE, NoId, <<Link(FALSE, NoId, WordLinks(AB)), shield.link>>)

ShieldTexts ==
    { ShieldText(front, shield, wrap) :
        front \in ShieldFronts, shield \in Shields, wrap \in BOOLEAN }

InitColonDepth ==
    InitWith(OneCall(ShieldTexts), {DefaultMaxInputSize}, {DefaultMaxDepth}, BOOLEAN)

SpecColonDepth == InitColonDepth /\ [][Next]_vars

(***************************************************************************)
(* C13: colon-depth correctness: the search for the identity/values        *)
(* separator skips every colon inside single, double or backtick quotes    *)
(* and inside a balanced parenthesis span: the colon inside the value is   *)
(* never the separator of the line, and an identity inside a parenthesized *)
(* value is assigned only to the inner link.                               *)
(***************************************************************************)
C13_ColonDepth ==
    \A front \in ShieldFronts, shield \in Shields, wrap \in BOOLEAN :
        (outcome # "none" /\ input_text.chars = ShieldText(front, shield, wrap)) =>
            /\ outcome = "ok"
            /\ result = <<ShieldLink(front, shield)>>

(***************************************************************************)
(* SpecQuotes: one call on a value opened and closed by a run of           *)
(* 1..MaxQuoteRun quote characters, alone on its line or behind "k: ".     *)
(* Its content is letters with one or two pieces between or behind them:   *)
(* a space, an escape (2N quote characters), a short run (fewer than N     *)
(* quote characters), or another quote character.  The content starts with *)
(* a letter (the opening run is N long) and no two runs of quote           *)
(* characters touch.                                                       *)
(***************************************************************************)
MaxQuoteRun == 3

\* The pieces: "t", "space", "other", "escape" (len 0), and "run" of len k
Piece(kind) == [kind |-> kind, len |-> 0]

QuotePieceKinds(n) ==
    {Piece("t"), Piece("space"), Piece("other"), Piece("escape")}
    \cup { [kind |-> "run", len |-> k] : k \in 1..(n - 1) }

QuoteContents(n) ==
    { <<Piece("t")>> }
    \cup { <<Piece("t"), x>> : x \in QuotePieceKinds(n) \ {Piece("space")} }
    \cup { <<Piece("t"), x, Piece("t")>> : x \in QuotePieceKinds(n) }
    \cup { <<Piece("t"), x, Piece("t"), y, Piece("t")>> :
              x \in QuotePieceKinds(n), y \in QuotePieceKinds(n) }

\* A quote character other than q
OtherQuote(q) == IF q = DQ THEN SQ ELSE DQ

\* A piece as it is written, and the characters it stands for
PieceWritten(piece, q, n) ==
    IF piece.kind = "t" THEN <<"t">>
    ELSE IF piece.kind = "space" THEN <<SP>>
    ELSE IF piece.kind = "other" THEN <<OtherQuote(q)>>
    ELSE IF piece.kind = "escape" THEN Repeat(q, 2 * n)
    ELSE Repeat(q, piece.len)

PieceMeant(piece, q, n) ==
    IF piece.kind = "escape" THEN Repeat(q, n) ELSE PieceWritten(piece, q, n)

QuotedWritten(pieces, q, n) ==
    Repeat(q, n) \o Join([k \in 1..Len(pieces) |-> PieceWritten(pieces[k], q, n)], <<>>)
                 \o Repeat(q, n)

QuotedMeant(pieces, q, n) ==
    Join([k \in 1..Len(pieces) |-> PieceMeant(pieces[k], q, n)], <<>>)

QuoteText(pieces, q, n, behind_id) ==
    IF behind_id THEN <<"k", COLON, SP>> \o QuotedWritten(pieces, q, n)
    ELSE QuotedWritten(pieces, q, n)

QuoteTexts ==
    UNION { { QuoteText(pieces, q, n, behind_id) :
                pieces \in QuoteContents(n), q \in ColonQuotes, behind_id \in BOOLEAN } :
            n \in 1..MaxQuoteRun }

InitQuotes ==
    InitWith(OneCall(QuoteTexts), {DefaultMaxInputSize}, {DefaultMaxDepth}, {TRUE})

SpecQuotes == InitQuotes /\ [][Next]_vars

(***************************************************************************)
(* C14: multi-quote strings: for each quote character and every N >= 1, a  *)
(* value opened by a run of N quote characters is closed by the next       *)
(* unescaped run of exactly N of them and yields one Scalar value; in its  *)
(* decoded content every run of 2N quote characters stands for N literal   *)
(* quote characters and a run of fewer than N quote characters is literal. *)
(***************************************************************************)
C14_MultiQuoteStrings ==
    \A n \in 1..MaxQuoteRun, q \in ColonQuotes, behind_id \in BOOLEAN :
        \A pieces \in QuoteContents(n) :
            (outcome # "none" /\ input_text.chars = QuoteText(pieces, q, n, behind_id)) =>
                /\ outcome = "ok"
                /\ result = << Link(behind_id, StrId(<<"k">>),
                                    <<Link(TRUE, StrId(QuotedMeant(pieces, q, n)), <<>>)>>) >>

\* A string opened by three quote characters whose content holds an escape
\* (six quote characters) and a short run, parsed into one value.
C14_Witness ==
    /\ outcome = "ok"
    /\ \E q \in ColonQuotes :
          /\ input_text.chars = QuoteText(<<Piece("t"), Piece("escape"), Piece("t"),
                                          [kind |-> "run", len |-> 2], Piece("t")>>,
                                        q, 3, FALSE)
          /\ result[1].values[1].ids = << <<"t", q, q, q, "t", q, q, "t">> >>

(***************************************************************************)
(* SpecLink: a client holds one Link, built through Link(link_id, values)  *)
(* with up to MaxChildren values, or one reference, and makes one call:    *)
(* link.id, link.simplify(), link.format(less_parentheses) or              *)
(* Link.escape_reference(reference).  input_text is the call made, result  *)
(* what it returned, raw_result the receiver after the call.               *)
(***************************************************************************)
MaxChildren == 2

ScalarIds ==
    { <<"a">>, <<"a", SP, "b">>, <<"a", COLON, "b">>, <<LP, "a">>, <<"a", RP>>,
      <<"a", SQ, "s">> }

MultiIds == { AB, << <<"a">>, <<"b">>, <<"c">> >> }

\* What Link(link_id, ...) is given as link_id: None, a str, a list of str
LinkIdArgs ==
    {[has |-> FALSE, id |-> NoId]}
    \cup {[has |-> TRUE, id |-> StrId(s)] : s \in ScalarIds}
    \cup {[has |-> TRUE, id |-> ListId(m)] : m \in MultiIds}

LeafA == Link(TRUE, StrId(<<"a">>), <<>>)
LeafAB == Link(TRUE, ListId(AB), <<>>)
OnlyChild == Link(FALSE, NoId, <<LeafA>>)
TwoChildren == Link(TRUE, StrId(<<"b">>), <<LeafA, OnlyChild>>)

ChildLinks == { LeafA, LeafAB, OnlyChild, TwoChildren }

Links ==
    { Link(arg.has, arg.id, values) :
        arg \in LinkIdArgs, values \in SeqsUpTo(ChildLinks, MaxChildren) }

References ==
    { StrId(s) : s \in ScalarIds \cup { <<>>, <<SP>>, <<TAB>>, <<"a", TAB>>, <<"a", NL, "b">>,
                                         <<"a", CR>>, <<"a", DQ, "b">>, <<SQ, SP>> } }
    \cup { ListId(m) : m \in MultiIds \cup { << <<"a", SP, "b">>, <<"a", SQ, "s">> >> } }

LinkCall(op, link, reference, less_parentheses) ==
    [op |-> op, link |-> link, reference |-> reference, less_parentheses |-> less_parentheses]

LinkCalls ==
    { <<LinkCall(op, link, NoId, FALSE)>> : op \in {"id", "simplify"}, link \in Links }
    \cup { <<LinkCall("format", link, NoId, flag)>> : link \in Links, flag \in BOOLEAN }
    \cup { <<LinkCall("escape_reference", LeafA, reference, FALSE)>> :
             reference \in References }

InitLink ==
    /\ self = NewParser(DefaultMaxInputSize, DefaultMaxDepth, TRUE)
    /\ calls \in LinkCalls
    /\ history = <<>>
    /\ input_text = LinkCall("none", LeafA, NoId, FALSE)
    /\ outcome = "none"
    /\ result = <<>>
    /\ raw_result = <<>>

\* The call Head(calls) is made on receiver and ends with outcome, returning
\* returned (<<>> for nothing).
LinkReturns(receiver, ended, returned) ==
    /\ outcome' = ended
    /\ result' = returned
    /\ raw_result' = <<receiver>>
    /\ input_text' = Head(calls)
    /\ history' = Append(history, [input |-> Head(calls), outcome |-> ended])
    /\ calls' = Tail(calls)
    /\ UNCHANGED self

IdReturns(receiver, r) == LinkReturns(receiver, r.outcome, <<r>>)

\* link.id
GetId ==
    /\ calls # <<>>
    /\ Head(calls).op = "id"
    /\ IdReturns(Head(calls).link, Link_id(Head(calls).link))

\* link.simplify()
Simplify ==
    /\ calls # <<>>
    /\ Head(calls).op = "simplify"
    /\ LinkReturns(Head(calls).link, "ok", <<simplify(Head(calls).link)>>)

\* link.format(less_parentheses)
Format ==
    /\ calls # <<>>
    /\ Head(calls).op = "format"
    /\ LinkReturns(Head(calls).link, "ok",
                   <<format(Head(calls).link, Head(calls).less_parentheses, FALSE)>>)

\* Link.escape_reference(reference)
Escape ==
    /\ calls # <<>>
    /\ Head(calls).op = "escape_reference"
    /\ LinkReturns(Head(calls).link, "ok", <<EscapeReference(Head(calls).reference)>>)

NextLink == GetId \/ Simplify \/ Format \/ Escape

SpecLink == InitLink /\ [][NextLink]_vars

WrappedAsStated(s) ==
    IF \E c \in {SP, COLON, LP, RP, TAB, NL, CR, DQ} : Contains(s, c)
    THEN <<SQ>> \o s \o <<SQ>>
    ELSE IF Contains(s, SQ) THEN <<DQ>> \o s \o <<DQ>>
    ELSE s

(***************************************************************************)
(* C16: escape_reference wraps a reference in single quotes if it contains *)
(* a space, colon, parenthesis, tab, newline, carriage return or double    *)
(* quote; otherwise in double quotes if it contains a single quote;        *)
(* otherwise leaves it bare.  A MultiPart identity is escaped by escaping  *)
(* each part with the same rule and joining the parts with single spaces.  *)
(***************************************************************************)
C16_EscapeReference ==
    (outcome # "none" /\ input_text.op = "escape_reference") =>
        /\ outcome = "ok"
        /\ result[1] =
              Join([k \in 1..Len(input_text.reference.parts) |->
                       WrappedAsStated(input_text.reference.parts[k])], <<SP>>)

\* text is wrapped in one pair of parentheses
InParentheses(text) == StartsWith(text, <<LP>>) /\ EndsWith(text, <<RP>>)

\* The identity of link is one str with a space, a colon or a parenthesis
HasSpecialCharacter(link) ==
    /\ Len(link.ids) = 1
    /\ \E c \in {SP, COLON, LP, RP} : Contains(link.ids[1], c)

(***************************************************************************)
(* C17: with less_parentheses, the outer parentheses of a link are omitted *)
(* only when its identity needs no escaping and is not MultiPart: a link   *)
(* whose identity contains a space, colon or parenthesis, or is MultiPart, *)
(* is rendered wrapped in parentheses, and a link whose identity has no    *)
(* special characters is rendered bare.                                    *)
(***************************************************************************)
C17_LessParentheses ==
    (outcome # "none" /\ input_text.op = "format" /\ input_text.less_parentheses
        /\ input_text.link.hasIds) =>
        /\ (HasSpecialCharacter(input_text.link) \/ Len(input_text.link.ids) > 1)
               => InParentheses(result[1])
        /\ (Len(input_text.link.ids) = 1
               /\ WrappedAsStated(input_text.link.ids[1]) = input_text.link.ids[1])
               => ~InParentheses(result[1])

(***************************************************************************)
(* C18: simplify returns the link itself when it has no children, returns  *)
(* its only child (discarding the parent identity) when it has exactly one *)
(* child, and otherwise returns a new link with the same identity whose    *)
(* children are the recursively simplified children; it does not modify    *)
(* the receiver.                                                           *)
(***************************************************************************)
C18_Simplify ==
    (outcome # "none" /\ input_text.op = "simplify") =>
        /\ outcome = "ok"
        /\ raw_result = <<input_text.link>>
        /\ IF input_text.link.values = <<>> THEN result[1] = input_text.link
           ELSE IF Len(input_text.link.values) = 1 THEN result[1] = input_text.link.values[1]
           ELSE /\ result[1].hasIds = input_text.link.hasIds
                /\ result[1].ids = input_text.link.ids
                /\ Len(result[1].values) = Len(input_text.link.values)
                /\ \A k \in 1..Len(input_text.link.values) :
                      result[1].values[k] = simplify(input_text.link.values[k])

\* simplify on (a b: (b: a (a)) (a)): both children changed, the first one
\* at its second child.
C18_Witness ==
    /\ input_text.op = "simplify"
    /\ input_text.link = Link(TRUE, ListId(AB), <<TwoChildren, OnlyChild>>)
    /\ result[1] = Link(TRUE, ListId(AB),
                        <<Link(TRUE, StrId(<<"b">>), <<LeafA, LeafA>>), LeafA>>)

(***************************************************************************)
(* SpecTokenizer: one call of tokenize or compact on a Tokenizer with the  *)
(* default symbols.  self is the Tokenizer, input_text the call made and   *)
(* result the one-element list of the text returned.                       *)
(***************************************************************************)
MaxTextLen == 4

\* A letter, a digit, a punctuation symbol, a math symbol, a space, both
\* quotes the tokenizer tracks and a character of no class
TokenChars == {"a", "1", COMMA, MINUS, SP, SQ, DQ, RP}

TokenTexts == SeqsUpTo(TokenChars, MaxTextLen)

TokenizerCall(op, text) == [op |-> op, text |-> text]

TokenizerCalls(texts) ==
    { <<TokenizerCall(op, text)>> : op \in {"tokenize", "compact"}, text \in texts }

InitTokenizer ==
    /\ \/ self = NewTokenizer(TRUE) /\ calls \in TokenizerCalls(TokenTexts)
       \/ self = NewTokenizer(FALSE) /\ calls \in TokenizerCalls(SeqsUpTo(TokenChars, 1))
    /\ history = <<>>
    /\ input_text = TokenizerCall("none", <<>>)
    /\ outcome = "none"
    /\ result = <<>>
    /\ raw_result = <<>>

\* The call Head(calls) returns the text returned
TokenizerReturns(returned) ==
    /\ outcome' = "ok"
    /\ result' = <<returned>>
    /\ input_text' = Head(calls)
    /\ history' = Append(history, [input |-> Head(calls), outcome |-> "ok"])
    /\ calls' = Tail(calls)
    /\ UNCHANGED <<self, raw_result>>

\* tokenizer.tokenize(text)
Tokenize ==
    /\ calls # <<>>
    /\ Head(calls).op = "tokenize"
    /\ TokenizerReturns(tokenize(self, Head(calls).text))

\* tokenizer.compact(text)
Compact ==
    /\ calls # <<>>
    /\ Head(calls).op = "compact"
    /\ TokenizerReturns(compact(self, Head(calls).text))

NextTokenizer == Tokenize \/ Compact

SpecTokenizer == InitTokenizer /\ [][NextTokenizer]_vars

\* The quotes open after chars[1..i], as tokenize and compact track them
ToggleQuote(open, char) ==
    IF char = DQ /\ ~open.single THEN [open EXCEPT !.double = ~open.double]
    ELSE IF char = SQ /\ ~open.double THEN [open EXCEPT !.single = ~open.single]
    ELSE open

RECURSIVE QuotesOpenAfter(_, _)
QuotesOpenAfter(chars, i) ==
    IF i = 0 THEN [single |-> FALSE, double |-> FALSE]
    ELSE ToggleQuote(QuotesOpenAfter(chars, i - 1), chars[i])

\* chars[i] is neither inside quotes nor a quote that opens or closes them
OutsideQuotes(chars, i) ==
    /\ chars[i] \notin {SQ, DQ}
    /\ ~QuotesOpenAfter(chars, i - 1).single
    /\ ~QuotesOpenAfter(chars, i - 1).double

IsPunctuationAt(chars, i) == InList(chars[i], self.punctuation_symbols)
IsMathAt(chars, i) == InList(chars[i], self.math_symbols)
IsGlyphAt(chars, i) == IsPunctuationAt(chars, i) \/ IsMathAt(chars, i)

AlnumAt(chars, i) == i \in 1..Len(chars) /\ chars[i] \in (Digits \cup Letters)
DigitAt(chars, i) == i \in 1..Len(chars) /\ chars[i] \in Digits

\* The two situations of the tokenizer's rules
PunctuationAfterAlnum(chars, i) ==
    OutsideQuotes(chars, i) /\ IsPunctuationAt(chars, i) /\ AlnumAt(chars, i - 1)

MathBetweenDigits(chars, i) ==
    /\ OutsideQuotes(chars, i) /\ IsMathAt(chars, i)
    /\ DigitAt(chars, i - 1) /\ DigitAt(chars, i + 1)

RECURSIVE Joined(_)
Joined(pieces) == IF pieces = <<>> THEN <<>> ELSE Head(pieces) \o Joined(Tail(pieces))

Spaces(wanted) == IF wanted THEN <<SP>> ELSE <<>>

\* chars[i] with a space on each side where the glyph is split out and no
\* space stands there already
SurroundedAt(chars, i) ==
    IF PunctuationAfterAlnum(chars, i) \/ MathBetweenDigits(chars, i)
    THEN <<SP, chars[i]>>
         \o Spaces(i < Len(chars) /\ chars[i + 1] \notin {SP, TAB, NL})
    ELSE <<chars[i]>>

\* chars[i] with the spaces tokenize inserts: before the glyph in both
\* situations, after it when the next character is alphanumeric
SpacedAt(chars, i) ==
    IF PunctuationAfterAlnum(chars, i) \/ MathBetweenDigits(chars, i)
    THEN <<SP, chars[i]>> \o Spaces(AlnumAt(chars, i + 1))
    ELSE <<chars[i]>>

Tokenized == outcome = "ok" /\ input_text.op = "tokenize" /\ self.enabled

\* C19 as stated: tokenize returns its input with every punctuation glyph
\* that follows an alphanumeric character, and every math glyph between two
\* digits, outside quotes, set off by a space on each side, and every other
\* character copied.
C19_GlyphsSurrounded ==
    Tokenized =>
        result[1] = Joined([i \in 1..Len(input_text.text) |->
                              SurroundedAt(input_text.text, i)])

\* C19, amended: tokenize returns its input with one space inserted before
\* every punctuation glyph that follows an alphanumeric character and before
\* every math glyph between two digits, outside quotes, and one space
\* inserted after such a glyph when the character after it is alphanumeric;
\* every other character, and everything inside quotes, is copied.
C19_SpacesInserted ==
    Tokenized =>
        result[1] = Joined([i \in 1..Len(input_text.text) |->
                              SpacedAt(input_text.text, i)])

C19_Witness ==
    /\ Tokenized
    /\ input_text.text = <<"1", MINUS, "1", COMMA>>
    /\ result[1] = <<"1", SP, MINUS, SP, "1", SP, COMMA>>

Compacted == outcome = "ok" /\ input_text.op = "compact" /\ self.enabled

\* A space outside quotes with a configured glyph directly before or after
SpaceNextToGlyph(chars, i) ==
    /\ chars[i] = SP
    /\ OutsideQuotes(chars, i)
    /\ \/ (i > 1 /\ IsGlyphAt(chars, i - 1))
       \/ (i < Len(chars) /\ IsGlyphAt(chars, i + 1))

WithoutSpaceAt(chars, i) == IF SpaceNextToGlyph(chars, i) THEN <<>> ELSE <<chars[i]>>

NoSpaceNextToGlyph(chars) == \A i \in 1..Len(chars) : ~SpaceNextToGlyph(chars, i)

\* compact removes the spaces next to a glyph and nothing else
C20_OnlyAdjacentSpaces ==
    Compacted =>
        result[1] = Joined([i \in 1..Len(input_text.text) |->
                              WithoutSpaceAt(input_text.text, i)])

\* compact undoes tokenize on a text with no space next to a glyph
C20_RoundTrip ==
    (Tokenized /\ NoSpaceNextToGlyph(input_text.text)) =>
        compact(self, result[1]) = input_text.text

\* C20: compact removes a space outside quotes that stands next to a
\* configured glyph and nothing else, and compact(tokenize(x)) = x for every
\* text x with no space next to a configured glyph outside quotes.
C20_CompactReverses == C20_OnlyAdjacentSpaces /\ C20_RoundTrip

(***************************************************************************)
(* SpecSymbols: one parse, by a Parser with the default options, of a      *)
(* short text of digits, letters, symbols, spaces and double quotes.       *)
(***************************************************************************)
MaxSymbolLen == 4

SymbolChars == {"1", "a", COMMA, MINUS, SP, DQ}

SymbolTexts == SeqsUpTo(SymbolChars, MaxSymbolLen)

InitSymbols ==
    InitWith(OneCall(SymbolTexts), {DefaultMaxInputSize}, {DefaultMaxDepth}, {TRUE})

SpecSymbols == InitSymbols /\ [][Next]_vars

\* C21: parse(x) returns the links that parsing Tokenizer().tokenize(x)
\* without further tokenization returns: symbols between digits become
\* values of their own, hyphenated words and quoted content stay whole.
C21_ParseTokenizes ==
    outcome = "ok" =>
        LinksEq(result,
                parse(Fresh, Str(tokenize(NewTokenizer(TRUE), input_text.chars))).result)

\* C22: parse returns or raises on every input within the size limit: no
\* loop of the parse repeats without advancing, whatever the indentation of
\* the lines (a line indented 1 or 3 spaces deeper than its parent included).
C22_ParseTerminates == outcome # "hang"

\* The indent of line n relative to the base the parse took
IndentOf(lines, base, n) == NormalIndent(RawIndent(lines[n]), base)

IsBlank(line) == Strip(line) = <<>>

\* The first line after line n that is indented no deeper than line n (a
\* blank line included), or the line after the last
BlockEnd(lines, base, n) ==
    IF \E m \in (n + 1)..Len(lines) : IndentOf(lines, base, m) <= IndentOf(lines, base, n)
    THEN CHOOSE m \in (n + 1)..Len(lines) :
            /\ IndentOf(lines, base, m) <= IndentOf(lines, base, n)
            /\ \A k \in (n + 1)..(m - 1) :
                  IndentOf(lines, base, k) > IndentOf(lines, base, n)
    ELSE Len(lines) + 1

\* The number of lines whose block holds line n
NestingOf(lines, base, n) ==
    Cardinality({m \in 1..(n - 1) : ~IsBlank(lines[m]) /\ n < BlockEnd(lines, base, m)})

\* The non-blank lines, in order
RECURSIVE ContentLinesFrom(_, _)
ContentLinesFrom(lines, n) ==
    IF n > Len(lines) THEN <<>>
    ELSE IF IsBlank(lines[n]) THEN ContentLinesFrom(lines, n + 1)
    ELSE <<n>> \o ContentLinesFrom(lines, n + 1)

\* The elements of a raw parse in the order they were parsed, each with the
\* number of elements it is nested in
RECURSIVE ElementsOf(_, _)
ElementsOf(items, nesting) ==
    IF items = <<>> THEN <<>>
    ELSE <<[nesting |-> nesting, is_indented_id |-> Head(items).is_indented_id]>>
         \o ElementsOf(Head(items).children, nesting + 1)
         \o ElementsOf(Tail(items), nesting)

\* What the child blocks of the lines make of the document
BlockElements(lines, base) ==
    [k \in 1..Len(ContentLinesFrom(lines, 1)) |->
        [nesting |-> NestingOf(lines, base, ContentLinesFrom(lines, 1)[k]),
         is_indented_id |-> EndsWith(Strip(lines[ContentLinesFrom(lines, 1)[k]]), <<COLON>>)]]

\* The parse returned and every line became one element under the line
\* whose block holds it
C23_BlocksWhenReturned ==
    (outcome = "ok" /\ ~IsBlank(input_text.chars)) =>
        ElementsOf(raw_result, 0) = BlockElements(self.lines, self.base_indentation)

\* C23: the children of a line are exactly the following non-blank lines
\* indented deeper than it by any amount >= 1, each consumed once, up to the
\* first following line indented no deeper, which is parsed at the
\* enclosing level.
C23_ChildBlocks == outcome # "hang" /\ C23_BlocksWhenReturned

(***************************************************************************)
(* SpecLines: one parse of a document of up to MaxLineUnits units joined   *)
(* by newlines, a unit being a word, a string of two lines between runs of *)
(* one or two quote characters, or a parenthesized expression of two lines.*)
(***************************************************************************)
MaxLineUnits == 2

TwoLines == <<"a", NL, "b">>

LineUnits ==
    {<<"c">>, <<LP>> \o TwoLines \o <<RP>>, <<LP, "c", SP, SQ>> \o TwoLines \o <<SQ, RP>>}
    \cup { Repeat(q, n) \o TwoLines \o Repeat(q, n) : q \in ColonQuotes, n \in {1, 2} }

LineDocs == SeqsUpTo(LineUnits, MaxLineUnits) \ {<<>>}

InitLines ==
    InitWith(OneCall({Join(units, <<NL>>) : units \in LineDocs}),
             {DefaultMaxInputSize}, {DefaultMaxDepth}, {TRUE})

SpecLines == InitLines /\ [][Next]_vars

\* C24: the logical lines of a text are its pieces between the newlines
\* that lie outside every quoted string and every unclosed parenthesis: a
\* quoted string or parenthesized expression of several lines stays on one
\* logical line, and the newline after it ends the line.
C24_LogicalLines ==
    outcome = "ok" =>
        \A units \in LineDocs :
            input_text.chars = Join(units, <<NL>>) => self.lines = units

(***************************************************************************)
(* SpecBlock: one parse of an indented-id line followed by up to           *)
(* MaxBlockLines child lines, each two spaces deep.                        *)
(***************************************************************************)
MaxBlockLines == 2

\* The identities of the header line: one word, two words
BlockHeaders == {<<"i", "d">>, <<"p", SP, "q">>}

\* A child line as written, and the link it denotes
ChildLine(text, link) == [text |-> text, link |-> link]

ChildLines ==
    { ChildLine(<<"a">>, Link(TRUE, StrId(<<"a">>), <<>>)),
      ChildLine(<<"a", SP, "b">>, Link(FALSE, NoId, WordLinks(<< <<"a">>, <<"b">> >>))),
      ChildLine(<<"k", COLON, SP, "v">>,
                Link(TRUE, StrId(<<"k">>), WordLinks(<< <<"v">> >>))),
      ChildLine(<<"k", COLON, SP, "v", SP, "w">>,
                Link(TRUE, StrId(<<"k">>), WordLinks(<< <<"v">>, <<"w">> >>))),
      ChildLine(<<LP, "k", COLON, SP, "v", RP>>,
                Link(TRUE, StrId(<<"k">>), WordLinks(<< <<"v">> >>))),
      ChildLine(<<LP, "a", SP, "b", RP>>,
                Link(FALSE, NoId, WordLinks(<< <<"a">>, <<"b">> >>))) }

BlockBodies == SeqsUpTo(ChildLines, MaxBlockLines) \ {<<>>}

BlockText(header, body) ==
    Join(<<header \o <<COLON>>>> \o [n \in 1..Len(body) |-> <<SP, SP>> \o body[n].text],
         <<NL>>)

InitBlock ==
    InitWith(OneCall({BlockText(header, body) : header \in BlockHeaders, body \in BlockBodies}),
             {DefaultMaxInputSize}, {DefaultMaxDepth}, {TRUE})

SpecBlock == InitBlock /\ [][Next]_vars

\* C25: an indented-id line followed by n deeper lines gives one link with
\* the identity of the line and n children in line order, each child the
\* link its line denotes: the reference of a one-word line, the
\* identity-less link of the values of a line of several words, the link
\* with its own identity and values of a colon-form or parenthesized line.
C25_IndentedIdChildren ==
    \A header \in BlockHeaders, body \in BlockBodies :
        (outcome # "none" /\ input_text.chars = BlockText(header, body)) =>
            /\ outcome = "ok"
            /\ LinksEq(result,
                       <<Link(TRUE, ListId(Split(header)),
                              [n \in 1..Len(body) |-> body[n].link])>>)

\* An indented-id line with its block of child lines
IsBlock(item) == item.is_indented_id /\ item.hasId /\ item.children # <<>>

\* The lines that have a link of their own, in document order, each with the
\* number of its ancestors: the lines of the block of an indented-id line are
\* the children of its link, not lines with ancestors
RECURSIVE PathItems(_, _)
PathItems(items, nesting) ==
    IF items = <<>> THEN <<>>
    ELSE <<[nesting |-> nesting, item |-> Head(items)]>>
         \o (IF IsBlock(Head(items)) THEN <<>>
             ELSE PathItems(Head(items).children, nesting + 1))
         \o PathItems(Tail(items), nesting)

\* The ancestor with n ancestors of its own of the k-th line: the last line
\* before it at that nesting
AncestorAt(lines, k, n) ==
    CHOOSE i \in 1..(k - 1) :
        /\ lines[i].nesting = n
        /\ \A j \in (i + 1)..(k - 1) : lines[j].nesting # n

\* combine(first, second)
PathLink(first, second) ==
    [hasIds |-> FALSE, ids |-> <<>>, values |-> <<first, second>>, path |-> TRUE]

\* The own link of the k-th line, as the output holds it
OwnLink(lines, out, k) == IF lines[k].nesting = 0 THEN out[k] ELSE out[k].values[2]

\* The combination of the n outermost ancestors of the k-th line
RECURSIVE AncestorChain(_, _, _, _)
AncestorChain(lines, out, k, n) ==
    IF n = 1 THEN OwnLink(lines, out, AncestorAt(lines, k, 0))
    ELSE PathLink(AncestorChain(lines, out, k, n - 1),
                  OwnLink(lines, out, AncestorAt(lines, k, n - 1)))

\* The first word of a link and of the line it was parsed from
FirstWordOf(link) == IF link.hasIds THEN link.ids[1] ELSE link.values[1].ids[1]
FirstWordOfItem(item) == IF item.hasId THEN item.id.parts[1] ELSE item.values[1].id.parts[1]

PathMaterialized(lines, out) ==
    /\ Len(out) = Len(lines)
    /\ \A k \in 1..Len(lines) :
          /\ lines[k].nesting = 0 => ~out[k].path
          /\ lines[k].nesting > 0 =>
                /\ out[k].path /\ ~out[k].hasIds /\ Len(out[k].values) = 2
                /\ out[k].values[1] = AncestorChain(lines, out, k, lines[k].nesting)
          /\ ~OwnLink(lines, out, k).path
          /\ FirstWordOf(OwnLink(lines, out, k)) = FirstWordOfItem(lines[k].item)

\* Whenever the parse returns, its links are the path materialization of
\* the lines parsed
C26_MaterializedWhenReturned ==
    (outcome = "ok" /\ raw_result # <<>>) =>
        PathMaterialized(PathItems(raw_result, 0), result)

\* C26: a line with ancestors p1 ... pn, n >= 1, is emitted as a link
\* without identity, tagged path-derived, with exactly two children: the
\* single ancestor (n = 1) or the combination of the ancestor chain (n > 1),
\* and the line's own link; a line without ancestors is emitted untagged;
\* every parent is listed before its descendants, in document order.  (The
\* lines of the block of an indented-id line are the children of its link.)
C26_PathMaterialization == outcome # "none" => (outcome = "ok" /\ C26_MaterializedWhenReturned)

(***************************************************************************)
(* SpecValues: one parse of a value list of 2 to MaxListValues values,     *)
(* written as a line of its own or between parentheses.                    *)
(***************************************************************************)
MaxListValues == 3

\* A value as written, and the link it denotes
ListValue(text, link) == [text |-> text, link |-> link]

ListValues ==
    { ListValue(<<"a">>, Link(TRUE, StrId(<<"a">>), <<>>)),
      ListValue(<<SQ, "a", SP, "b", SQ>>, Link(TRUE, StrId(<<"a", SP, "b">>), <<>>)),
      ListValue(<<LP, "a", SP, "b", RP>>,
                Link(FALSE, NoId, WordLinks(<< <<"a">>, <<"b">> >>))),
      ListValue(<<LP, "k", COLON, SP, "v", RP>>,
                Link(TRUE, StrId(<<"k">>), WordLinks(<< <<"v">> >>))) }

ValueLists == SeqsUpTo(ListValues, MaxListValues) \ SeqsUpTo(ListValues, 1)

ValueListText(values, wrapped) ==
    IF wrapped THEN <<LP>> \o Join([n \in 1..Len(values) |-> values[n].text], <<SP>>) \o <<RP>>
    ELSE Join([n \in 1..Len(values) |-> values[n].text], <<SP>>)

InitValues ==
    InitWith(OneCall({ValueListText(values, wrapped) :
                         values \in ValueLists, wrapped \in BOOLEAN}),
             {DefaultMaxInputSize}, {DefaultMaxDepth}, {TRUE})

SpecValues == InitValues /\ [][Next]_vars

\* C27: a value list, as a line or as a parenthesized body, is split on
\* unquoted whitespace into its values, a parenthesized value being parsed
\* recursively and a word or quoted string being a reference: the parse
\* gives one identity-less link with one child per value, a line of several
\* parenthesized values included.
C27_ValueLists ==
    \A values \in ValueLists, wrapped \in BOOLEAN :
        (outcome # "none" /\ input_text.chars = ValueListText(values, wrapped)) =>
            /\ outcome = "ok"
            /\ LinksEq(result,
                       <<Link(FALSE, NoId, [n \in 1..Len(values) |-> values[n].link])>>)

(***************************************************************************)
(* SpecIdentity: one parse of a text of up to MaxIdentityLen characters    *)
(* out of a word character, the colon, the parentheses and the space.      *)
(***************************************************************************)
MaxIdentityLen == 4

IdentityChars == {"a", COLON, LP, RP, SP}

InitIdentity ==
    InitWith(OneCall(SeqsUpTo(IdentityChars, MaxIdentityLen)),
             {DefaultMaxInputSize}, {DefaultMaxDepth}, {TRUE})

SpecIdentity == InitIdentity /\ [][Next]_vars

\* The identity of link and of every link below it is absent, one part, or
\* two or more non-empty words
RECURSIVE WellFormedIdentities(_)
WellFormedIdentities(link) ==
    /\ \/ ~link.hasIds
       \/ Len(link.ids) = 1
       \/ Len(link.ids) >= 2 /\ \A n \in 1..Len(link.ids) : link.ids[n] # <<>>
    /\ \A n \in 1..Len(link.values) : WellFormedIdentities(link.values[n])

\* C28: every link of a parse result, at any depth, has an identity that is
\* absent, exactly one text part, or a sequence of at least two non-empty
\* words; an identity of zero parts never occurs, a colon form with nothing
\* before the colon included.
C28_WellFormedIdentities ==
    outcome = "ok" => \A n \in 1..Len(result) : WellFormedIdentities(result[n])

\* The words of a text without quotes: its runs of characters other than
\* whitespace, parentheses and the colon, in order
RECURSIVE WordsFrom(_, _, _)
WordsFrom(text, i, word) ==
    IF i > Len(text) THEN (IF word = <<>> THEN <<>> ELSE <<word>>)
    ELSE IF text[i] \in Whitespace \cup {LP, RP, COLON}
    THEN (IF word = <<>> THEN <<>> ELSE <<word>>) \o WordsFrom(text, i + 1, <<>>)
    ELSE WordsFrom(text, i + 1, Append(word, text[i]))

\* The identity parts and values of links and of every link below them, in
\* order
RECURSIVE ContentOf(_)
ContentOf(links) ==
    IF links = <<>> THEN <<>>
    ELSE Head(links).ids \o ContentOf(Head(links).values) \o ContentOf(Tail(links))

\* C29: parse drops no content: every word of the input is an identity part
\* or a value of the links returned, in document order, the identity of a
\* colon-form child line of an indented-id block included.
C29_NothingDropped ==
    outcome # "none" =>
        /\ outcome = "ok"
        /\ ContentOf(result) = WordsFrom(input_text.chars, 1, <<>>)

(***************************************************************************)
(* SpecFormatConfig: one call link.format(config).  self is the            *)
(* FormatConfig, raw_result the one-element list of the link formatted and *)
(* result the one-element list of the text returned.                       *)
(***************************************************************************)
FormatConfigs ==
    { NewFormatConfig(less_parentheses, max_line_length, max_inline_refs, prefer_inline,
                      <<SP, SP>>) :
        less_parentheses \in BOOLEAN, max_line_length \in {6, 12, 80},
        max_inline_refs \in {1, 3}, prefer_inline \in BOOLEAN }

InitFormatConfig ==
    /\ self \in FormatConfigs
    /\ calls \in { <<LinkCall("format", link, NoId, FALSE)>> : link \in Links }
    /\ history = <<>>
    /\ input_text = LinkCall("none", LeafA, NoId, FALSE)
    /\ outcome = "none"
    /\ result = <<>>
    /\ raw_result = <<>>

\* link.format(config)
FormatWithConfig ==
    /\ calls # <<>>
    /\ LinkReturns(Head(calls).link, "ok",
                   <<_format_with_config(Head(calls).link, self, FALSE)>>)

NextFormatConfig == FormatWithConfig

SpecFormatConfig == InitFormatConfig /\ [][NextFormatConfig]_vars

\* The block layout of a link: the header line of its identity, if it has
\* one, and one line per value behind the indent string
BlockLayout(link, config) ==
    Join((IF link.hasIds THEN <<escape_reference(link) \o <<COLON>>>> ELSE <<>>)
         \o [n \in 1..Len(link.values) |->
                config.indent_string \o format_value(link, link.values[n])],
         <<NL>>)

\* The single-line rendering of a link under config
SingleLine(link, config) == format(link, config.less_parentheses, FALSE)

\* C30: a link with values is rendered in block layout exactly when
\* prefer_inline is false and its value count exceeds the value-count
\* threshold or its single-line rendering exceeds the line-length
\* threshold; otherwise, and always without values, it is rendered on a
\* single line.
C30_BlockLayout ==
    outcome = "ok" =>
        result[1] =
            IF /\ raw_result[1].values # <<>>
               /\ ~self.prefer_inline
               /\ \/ Len(raw_result[1].values) > self.max_inline_refs
                  \/ Len(SingleLine(raw_result[1], self)) > self.max_line_length
            THEN BlockLayout(raw_result[1], self)
            ELSE SingleLine(raw_result[1], self)

==========================================================================
